---- MODULE Spec2Model ----
(***************************************************************************)
(* A model of the route-ordering optimizer (route_optimizer.py) and of the *)
(* traffic-light engine (traffic_light_optimizer.py).                      *)
(*                                                                         *)
(* Units.  Durations are held in hundredths of a second, so that the rush  *)
(* hour factor 1.0 .. 1.3 (a multiple of 0.01 for whole-kilometre          *)
(* distances) stays an integer.  Python lists are 0-based: a list is a     *)
(* TLA+ sequence and At(s, i) reads Python's s[i].                         *)
(***************************************************************************)
EXTENDS Integers, Sequences, FiniteSets, TLC

VARIABLES
    \* ---- optimize_route ------------------------------------------------
    coordinates,        \* the number N of waypoints handed to optimize_route
    current_hour,       \* datetime.now().hour when the call runs
    matrix,             \* what get_distance_matrix answered (as received)
    durations,          \* the durations the search reads (adjusted in place)
    pc,                 \* where optimize_route stands
    perm_k,             \* exact: how many permutations were consumed
    min_duration,       \* exact: smallest total seen so far
    best_route_indices,
    route_indices,      \* 2-opt: the order being improved
    unvisited,          \* nearest neighbour: indices not yet appended
    nn_seed,            \* the order the 2-opt phase started from
    remaining,          \* hybrid: indices not yet appended (ascending list)
    route_duration,
    result,             \* what optimize_route returned
    \* ---- estimate_traffic_light_delay / optimize_arrival_time ---------
    est,                \* the latest call of estimate_traffic_light_delay
    prev_est,           \* the call before it
    adv_pc,             \* where optimize_arrival_time stands
    light_info,         \* its arguments
    current_time,
    current_speed,
    distance_to_light,
    base,               \* base_arrival_time, base_delay, base_status
    best,               \* best_speed, best_delay, best_status, best_arrival
    scan_i,             \* index of the next candidate speed
    scanned,            \* the candidate speeds tested so far
    advice,             \* what optimize_arrival_time returned
    \* ---- the traffic-light map and the detection of lights ------------
    TRAFFIC_LIGHT_MAP,  \* the process-wide map: entries in insertion order
    rng,                \* state of the process-wide generator of module random
    initialized,        \* per region, the first initialization: its map and
                        \* the generator state it started from
    reseeded,           \* the latest initialization started from another
                        \* generator state than the first one of its region
    last_region,        \* region of the latest initialization
    route_geometry,     \* argument of the latest detect_traffic_lights_on_route
    detect_outcome,     \* "none", "returned" or "raised"
    found_lights,       \* the list it returned
    \* ---- simulate_traffic_conditions ----------------------------------
    traffic,            \* the latest call: what it read and what it returned
    \* ---- initialize_traffic_light_map run by several threads ----------
    init_pc,            \* per thread: "idle", "reset", "loop" or "done"
    init_region,        \* per thread: its region_bounds
    init_left,          \* per thread: passes of the loop still to make
    running,            \* the thread that took the latest step (0: none yet)
    switches,           \* how often a thread was preempted before it returned
    observed,           \* the map a concurrent reader saw
    \* ---- analyze_route_for_lights -------------------------------------
    an_pc,              \* "idle", "loop" or "done"
    route_data,         \* its argument: what it holds, and the joined geometry
    average_speed_ms,
    lights,             \* what detect_traffic_lights_on_route returned to it
    start_time,
    an_current_time,    \* its local current_time, the running time
    traffic_lights,     \* result["traffic_lights"], one entry per light done
    report              \* what analyze_route_for_lights returned

routeVars == <<coordinates, current_hour, matrix, durations, pc, perm_k,
               min_duration, best_route_indices, route_indices, unvisited,
               nn_seed, remaining, route_duration, result>>

lightVars == <<est, prev_est, adv_pc, light_info, current_time, current_speed,
               distance_to_light, base, best, scan_i, scanned, advice>>

mapVars == <<TRAFFIC_LIGHT_MAP, rng, initialized, reseeded, last_region, route_geometry,
             detect_outcome, found_lights>>

trafficVars == <<traffic>>

threadVars == <<init_pc, init_region, init_left, running, switches, observed>>

analyzeVars == <<an_pc, route_data, average_speed_ms, lights, start_time, an_current_time,
                 traffic_lights, report>>

vars == <<routeVars, lightVars, mapVars, trafficVars, threadVars, analyzeVars>>

\* what the operations of one part leave alone
notRouteVars == <<lightVars, mapVars, trafficVars, threadVars, analyzeVars>>

notLightVars == <<routeVars, mapVars, trafficVars, threadVars, analyzeVars>>

notMapVars == <<routeVars, lightVars, trafficVars, threadVars, analyzeVars>>

notTrafficVars == <<routeVars, lightVars, threadVars, analyzeVars>>

\* analyze_route_for_lights writes the map through detect_traffic_lights_on_route
notAnalyzeVars == <<routeVars, lightVars, trafficVars, threadVars, route_geometry,
                    detect_outcome, found_lights>>

\* ------------------------------------------------------------------------
\* Bounds of the model
\* ------------------------------------------------------------------------
MaxN == 13            \* waypoint counts 0 .. MaxN
MaxSeed == 3          \* duration matrices are drawn from seeds 1 .. MaxSeed
MaxDistSeed == 2      \* distance matrices are drawn from seeds 0 .. MaxDistSeed

\* ------------------------------------------------------------------------
\* Generic helpers
\* ------------------------------------------------------------------------
At(s, i) == s[i + 1]

Min2(a, b) == IF a < b THEN a ELSE b

Max2(a, b) == IF a > b THEN a ELSE b

RECURSIVE Fact(_)
Fact(n) == IF n <= 1 THEN 1 ELSE n * Fact(n - 1)

RemoveAt(s, k) == [x \in 1..(Len(s) - 1) |-> IF x < k THEN s[x] ELSE s[x + 1]]

\* The ascending list of a finite set of integers.
RECURSIVE SortedSeq(_)
SortedSeq(S) ==
    IF S = {} THEN <<>>
    ELSE LET m == CHOOSE x \in S : \A y \in S : x <= y
         IN <<m>> \o SortedSeq(S \ {m})

\* ------------------------------------------------------------------------
\* The provider's answers
\* ------------------------------------------------------------------------
Scale == 100
Null == -1            \* a null cell of the provider's JSON (no route found)
Unavailable == [kind |-> "unavailable"]

\* The scenario matrix of the specification (seconds).
ScenarioDurations ==
    <<  <<0, 10, 15, 20>>,
        <<10, 0, 35, 25>>,
        <<15, 35, 0, 30>>,
        <<20, 25, 30, 0>> >>

GenDuration(seed, sym, i, j) ==
    IF i = j THEN 0
    ELSE IF sym
         THEN 1 + ((seed * (Min2(i, j) + 1) * (Max2(i, j) + 2) + 5 * Max2(i, j) * Max2(i, j)
                    + 3 * Min2(i, j)) % 17)
         ELSE 1 + ((seed * (i + 1) * (j + 2) + 3 * i + 5 * j * j) % 17)

GenDistance(dseed, i, j) ==
    IF i = j THEN 0
    ELSE IF dseed = 0 THEN 40
    ELSE ((dseed * (i + 2 * j) + i * j) % 5) * 10

Idx(n) == 0 .. (n - 1)

GenMatrix(n, seed, sym, dseed) ==
    [kind |-> "ok",
     durations |-> [i \in Idx(n) |-> [j \in Idx(n) |-> Scale * GenDuration(seed, sym, i, j)]],
     distances |-> [i \in Idx(n) |-> [j \in Idx(n) |-> GenDistance(dseed, i, j)]]]

ScenarioMatrix(dseed) ==
    [kind |-> "ok",
     durations |-> [i \in Idx(4) |-> [j \in Idx(4) |-> Scale * ScenarioDurations[i + 1][j + 1]]],
     distances |-> [i \in Idx(4) |-> [j \in Idx(4) |-> GenDistance(dseed, i, j)]]]

\* A matrix whose cell (0, 1) is null.
WithNull(m) ==
    [m EXCEPT !.durations = [m.durations EXCEPT ![0] = [m.durations[0] EXCEPT ![1] = Null]]]

Matrices(n) ==
    {Unavailable}
    \cup {GenMatrix(n, s, y, d) : s \in 1..MaxSeed, y \in BOOLEAN, d \in 0..MaxDistSeed}
    \cup (IF n = 4 THEN {ScenarioMatrix(d) : d \in 0..MaxDistSeed} ELSE {})
    \cup (IF n >= 2 THEN {WithNull(GenMatrix(n, 1, FALSE, 0))} ELSE {})

Hours == {6, 7, 9, 10, 12, 15, 16, 18, 19}

\* ------------------------------------------------------------------------
\* optimize_route, lines 118-137: the rush-hour adjustment
\* ------------------------------------------------------------------------
RushHour(h) == (7 <= h /\ h <= 9) \/ (16 <= h /\ h <= 18)

\* 100 * (1.0 + 0.3 * (1.0 - min(1.0, d / 30.0))) for a distance of d km.
TrafficMultiplier(h, d) ==
    IF RushHour(h) THEN Scale + (30 - Min2(30, d)) ELSE Scale

HasNull(m, n) == \E i \in Idx(n), j \in Idx(n) : i # j /\ m.durations[i][j] = Null

AdjustedDurations(m, n, h) ==
    [i \in Idx(n) |-> [j \in Idx(n) |->
        IF i = j THEN m.durations[i][j]
        ELSE (m.durations[i][j] * TrafficMultiplier(h, m.distances[i][j])) \div Scale]]

\* Sum of the consecutive-pair entries of matrix d along a route.
RECURSIVE RouteTotal(_, _)
RouteTotal(d, route) ==
    IF Len(route) <= 1 THEN 0
    ELSE d[route[1]][route[2]] + RouteTotal(d, Tail(route))

\* ------------------------------------------------------------------------
\* optimize_route: results
\* ------------------------------------------------------------------------
NoResult == [outcome |-> "pending", has_route |-> FALSE, route |-> <<>>,
             hours |-> 0, minutes |-> 0, distance |-> 0]

\* return None, 0, 0
FailureMarker == [outcome |-> "returned", has_route |-> FALSE, route |-> <<>>,
                  hours |-> 0, minutes |-> 0, distance |-> 0]

\* an exception leaving optimize_route
Raised == [outcome |-> "raised", has_route |-> FALSE, route |-> <<>>,
           hours |-> 0, minutes |-> 0, distance |-> 0]

\* return coordinates, 0, 0 (the input list itself, in its own order)
Trivial(n) == [outcome |-> "returned", has_route |-> TRUE,
               route |-> [k \in 1..n |-> k - 1],
               hours |-> 0, minutes |-> 0, distance |-> 0]

\* a handler that lets the exception out
OnExceptionReraise == Raised

\* lines 272-274: except Exception -> return None, 0, 0
OnException == FailureMarker

\* lines 112-113: if not matrix: return None, 0, 0
OnUnavailable == FailureMarker

\* lines 251-270
Formatted(order, rd, dist) ==
    [outcome |-> "returned", has_route |-> TRUE,
     route |-> order,
     hours |-> IF Len(order) > 0 THEN rd \div (3600 * Scale) ELSE 0,
     minutes |-> IF Len(order) > 0 THEN (rd % (3600 * Scale)) \div (60 * Scale) ELSE 0,
     distance |-> IF Len(order) > 0 THEN RouteTotal(dist, order) ELSE 0]

\* ------------------------------------------------------------------------
\* optimize_route: the three strategies
\* ------------------------------------------------------------------------
ExactMax == 6
TwoOptMax == 12
Infinity == -1        \* float('inf')

\* the comparison turned round: the search would keep the largest total
LessTurned(total, m) == m = Infinity \/ total > m

\* a comparison that also lets an equal total replace the kept one
LessOrEqual(total, m) == m = Infinity \/ total <= m

\* total < min_duration, with min_duration possibly float('inf')
Less(total, m) == m = Infinity \/ total < m

\* an enumeration that repeats the first element instead of permuting
KthPermStuck(k, s) == [i \in 1..Len(s) |-> s[1]]

\* The k-th (from 0) permutation of the ascending list s, in the order
\* itertools.permutations yields them.
RECURSIVE KthPerm(_, _)
KthPerm(k, s) ==
    IF Len(s) = 0 THEN <<>>
    ELSE LET f == Fact(Len(s) - 1)
             q == k \div f
         IN <<s[q + 1]>> \o KthPerm(k % f, RemoveAt(s, q + 1))

\* min(S, key=lambda x: durations[cur][x]) over indices visited in ascending
\* order: the first minimum wins.
Nearest(d, cur, S) ==
    CHOOSE x \in S : \A y \in S : d[cur][x] < d[cur][y] \/ (d[cur][x] = d[cur][y] /\ x <= y)

\* lines 185-192: the pairs (i, j) whose boundary-edge sum the reversal lowers
CurrentCost(d, r, i, j) == d[At(r, i - 1)][At(r, i)] + d[At(r, j - 1)][At(r, j)]

NewCost(d, r, i, j) == d[At(r, i - 1)][At(r, j - 1)] + d[At(r, i)][At(r, j)]

Improving(d, r) ==
    {p \in (1 .. (Len(r) - 2)) \X (2 .. (Len(r) - 1)) :
        /\ p[1] < p[2]
        /\ NewCost(d, r, p[1], p[2]) < CurrentCost(d, r, p[1], p[2])}

\* the first improving pair in scan order
FirstImproving(d, r) ==
    CHOOSE p \in Improving(d, r) :
        \A q \in Improving(d, r) : p[1] < q[1] \/ (p[1] = q[1] /\ p[2] <= q[2])

\* a reversal that takes position j in as well
ReverseSliceInclusive(r, i, j) ==
    [k \in 1..Len(r) |-> IF i + 1 <= k /\ k <= j + 1 THEN r[i + j + 2 - k] ELSE r[k]]

\* line 194: route_indices[i:j] = reversed(route_indices[i:j])
ReverseSlice(r, i, j) ==
    [k \in 1..Len(r) |-> IF i + 1 <= k /\ k <= j THEN r[i + 1 + j - k] ELSE r[k]]

\* lines 225-238: does `point` connect well to some other remaining index?
ConnectingScore(d, cur, point, rem) ==
    Cardinality({o \in 1..Len(rem) :
        /\ rem[o] # point
        /\ 5 * (d[cur][point] + d[point][rem[o]]) < 6 * d[cur][rem[o]]})

\* positions of `rem` whose index has a positive connecting score
Connectors(d, cur, rem) ==
    {k \in 1..Len(rem) : ConnectingScore(d, cur, rem[k], rem) > 0}

SeqToSet(s) == {s[k] : k \in 1..Len(s)}

PositionOf(s, x) == CHOOSE k \in 1..Len(s) : s[k] = x

\* ------------------------------------------------------------------------
\* optimize_route: actions
\* ------------------------------------------------------------------------
\* a caller invokes optimize_route(coordinates); lines 101-104
Call ==
    /\ pc = "idle"
    /\ \E n \in 0..MaxN, h \in Hours :
        \E m \in Matrices(n) :
            /\ coordinates' = n
            /\ current_hour' = h
            /\ matrix' = m
    /\ durations' = <<>>
    /\ pc' = "start"
    /\ perm_k' = 0
    /\ min_duration' = Infinity
    /\ best_route_indices' = <<>>
    /\ route_indices' = <<>>
    /\ unvisited' = {}
    /\ nn_seed' = <<>>
    /\ remaining' = <<>>
    /\ route_duration' = 0
    /\ result' = NoResult
    /\ UNCHANGED notRouteVars

\* lines 106-107
ReturnTrivial ==
    /\ pc = "start"
    /\ coordinates <= 1
    /\ result' = Trivial(coordinates)
    /\ pc' = "done"
    /\ UNCHANGED <<coordinates, current_hour, matrix, durations, perm_k, min_duration,
                   best_route_indices, route_indices, unvisited, nn_seed, remaining,
                   route_duration>>
    /\ UNCHANGED notRouteVars

\* lines 110-113
ReturnUnavailable ==
    /\ pc = "start"
    /\ coordinates > 1
    /\ matrix.kind = "unavailable"
    /\ result' = OnUnavailable
    /\ pc' = "done"
    /\ UNCHANGED <<coordinates, current_hour, matrix, durations, perm_k, min_duration,
                   best_route_indices, route_indices, unvisited, nn_seed, remaining,
                   route_duration>>
    /\ UNCHANGED notRouteVars

\* line 137 on a null cell: None *= float raises TypeError; lines 272-274
RaiseInAdjust ==
    /\ pc = "start"
    /\ coordinates > 1
    /\ matrix.kind = "ok"
    /\ HasNull(matrix, coordinates)
    /\ result' = OnException
    /\ pc' = "done"
    /\ UNCHANGED <<coordinates, current_hour, matrix, durations, perm_k, min_duration,
                   best_route_indices, route_indices, unvisited, nn_seed, remaining,
                   route_duration>>
    /\ UNCHANGED notRouteVars

Adjustable ==
    /\ pc = "start"
    /\ coordinates > 1
    /\ matrix.kind = "ok"
    /\ ~HasNull(matrix, coordinates)

\* lines 115-146
BeginExact ==
    /\ Adjustable
    /\ coordinates <= ExactMax
    /\ durations' = AdjustedDurations(matrix, coordinates, current_hour)
    /\ min_duration' = Infinity
    /\ perm_k' = 0
    /\ pc' = "exact"
    /\ UNCHANGED <<coordinates, current_hour, matrix, best_route_indices, route_indices,
                   unvisited, nn_seed, remaining, route_duration, result>>
    /\ UNCHANGED notRouteVars

\* lines 148-160: one permutation
ExactStep ==
    /\ pc = "exact"
    /\ perm_k < Fact(coordinates - 1)
    /\ LET route == <<0>> \o KthPerm(perm_k, SortedSeq(1 .. (coordinates - 1)))
           total_duration == RouteTotal(durations, route)
       IN IF Less(total_duration, min_duration)
          THEN /\ min_duration' = total_duration
               /\ best_route_indices' = route
          ELSE UNCHANGED <<min_duration, best_route_indices>>
    /\ perm_k' = perm_k + 1
    /\ UNCHANGED <<coordinates, current_hour, matrix, durations, pc, route_indices,
                   unvisited, nn_seed, remaining, route_duration, result>>
    /\ UNCHANGED notRouteVars

\* the permutations are exhausted
ExactEnd ==
    /\ pc = "exact"
    /\ perm_k = Fact(coordinates - 1)
    /\ pc' = "finish"
    /\ UNCHANGED <<coordinates, current_hour, matrix, durations, perm_k, min_duration,
                   best_route_indices, route_indices, unvisited, nn_seed, remaining,
                   route_duration, result>>
    /\ UNCHANGED notRouteVars

\* lines 165-171
BeginNearestNeighbour ==
    /\ Adjustable
    /\ coordinates > ExactMax
    /\ coordinates <= TwoOptMax
    /\ durations' = AdjustedDurations(matrix, coordinates, current_hour)
    /\ route_indices' = <<0>>
    /\ unvisited' = 1 .. (coordinates - 1)
    /\ pc' = "nn"
    /\ UNCHANGED <<coordinates, current_hour, matrix, perm_k, min_duration,
                   best_route_indices, nn_seed, remaining, route_duration, result>>
    /\ UNCHANGED notRouteVars

\* lines 174-179: one append
NearestNeighbourStep ==
    /\ pc = "nn"
    /\ unvisited # {}
    /\ LET current == At(route_indices, Len(route_indices) - 1)
           nearest == Nearest(durations, current, unvisited)
       IN /\ route_indices' = Append(route_indices, nearest)
          /\ unvisited' = unvisited \ {nearest}
    /\ UNCHANGED <<coordinates, current_hour, matrix, durations, pc, perm_k, min_duration,
                   best_route_indices, nn_seed, remaining, route_duration, result>>
    /\ UNCHANGED notRouteVars

\* line 182: the seed is complete, the 2-opt loop starts
BeginTwoOpt ==
    /\ pc = "nn"
    /\ unvisited = {}
    /\ nn_seed' = route_indices
    /\ pc' = "twoopt"
    /\ UNCHANGED <<coordinates, current_hour, matrix, durations, perm_k, min_duration,
                   best_route_indices, route_indices, unvisited, remaining,
                   route_duration, result>>
    /\ UNCHANGED notRouteVars

\* lines 183-198: one scan that finds an improving pair and reverses
TwoOptStep ==
    /\ pc = "twoopt"
    /\ Improving(durations, route_indices) # {}
    /\ LET p == FirstImproving(durations, route_indices)
       IN route_indices' = ReverseSlice(route_indices, p[1], p[2])
    /\ UNCHANGED <<coordinates, current_hour, matrix, durations, pc, perm_k, min_duration,
                   best_route_indices, unvisited, nn_seed, remaining, route_duration,
                   result>>
    /\ UNCHANGED notRouteVars

\* lines 183-200: a full scan without improvement ends the loop
TwoOptEnd ==
    /\ pc = "twoopt"
    /\ Improving(durations, route_indices) = {}
    /\ best_route_indices' = route_indices
    /\ pc' = "finish"
    /\ UNCHANGED <<coordinates, current_hour, matrix, durations, perm_k, min_duration,
                   route_indices, unvisited, nn_seed, remaining, route_duration, result>>
    /\ UNCHANGED notRouteVars

\* lines 202-212
BeginHybrid ==
    /\ Adjustable
    /\ coordinates > TwoOptMax
    /\ durations' = AdjustedDurations(matrix, coordinates, current_hour)
    /\ best_route_indices' = <<0>>
    /\ remaining' = SortedSeq(1 .. (coordinates - 1))
    /\ pc' = "hybrid"
    /\ UNCHANGED <<coordinates, current_hour, matrix, perm_k, min_duration, route_indices,
                   unvisited, nn_seed, route_duration, result>>
    /\ UNCHANGED notRouteVars

\* lines 214-242: one iteration of the while loop
HybridStep ==
    /\ pc = "hybrid"
    /\ Len(remaining) > 0
    /\ LET current == At(best_route_indices, Len(best_route_indices) - 1)
           closest == Nearest(durations, current, SeqToSet(remaining))
           rem1 == RemoveAt(remaining, PositionOf(remaining, closest))
           best1 == Append(best_route_indices, closest)
           conn == Connectors(durations, current, rem1)
       IN IF Len(rem1) >= 2 /\ conn # {}
          THEN LET k == CHOOSE x \in conn : \A y \in conn : x <= y
               IN /\ best_route_indices' = Append(best1, rem1[k])
                  /\ remaining' = RemoveAt(rem1, k)
          ELSE /\ best_route_indices' = best1
               /\ remaining' = rem1
    /\ UNCHANGED <<coordinates, current_hour, matrix, durations, pc, perm_k, min_duration,
                   route_indices, unvisited, nn_seed, route_duration, result>>
    /\ UNCHANGED notRouteVars

\* lines 244-249: only this branch computes route_duration
HybridEnd ==
    /\ pc = "hybrid"
    /\ Len(remaining) = 0
    /\ route_duration' = RouteTotal(durations, best_route_indices)
    /\ pc' = "finish"
    /\ UNCHANGED <<coordinates, current_hour, matrix, durations, perm_k, min_duration,
                   best_route_indices, route_indices, unvisited, nn_seed, remaining, result>>
    /\ UNCHANGED notRouteVars

\* lines 251-270
Finish ==
    /\ pc = "finish"
    /\ result' = Formatted(best_route_indices, route_duration, matrix.distances)
    /\ pc' = "done"
    /\ UNCHANGED <<coordinates, current_hour, matrix, durations, perm_k, min_duration,
                   best_route_indices, route_indices, unvisited, nn_seed, remaining,
                   route_duration>>
    /\ UNCHANGED notRouteVars

RouteNext ==
    \/ Call
    \/ ReturnTrivial
    \/ ReturnUnavailable
    \/ RaiseInAdjust
    \/ BeginExact
    \/ ExactStep
    \/ ExactEnd
    \/ BeginNearestNeighbour
    \/ NearestNeighbourStep
    \/ BeginTwoOpt
    \/ TwoOptStep
    \/ TwoOptEnd
    \/ BeginHybrid
    \/ HybridStep
    \/ HybridEnd
    \/ Finish

\* ------------------------------------------------------------------------
\* Time.  A datetime is its number of microseconds since the epoch (UTC);
\* speeds are in cm/s and distances in metres.
\* ------------------------------------------------------------------------
MicrosPerSecond == 1000000

\* int(x) of Python for x = us / 10^6: truncation towards zero
IntTrunc(us) ==
    IF us >= 0 THEN us \div MicrosPerSecond ELSE -((-us) \div MicrosPerSecond)

\* math.floor in the place of int
IntFloor(us) == us \div MicrosPerSecond

\* line 206-211: int(arrival_time.timestamp())
WholeSeconds(us) == IntTrunc(us)

\* timedelta(seconds=distance / speed) in microseconds, rounded half to even;
\* the division is staged (s, ms, us) to stay within 32-bit integers
TravelMicros(metres, speed) ==
    LET cm == metres * 100
        sec == cm \div speed
        r0 == cm % speed
        ms == (r0 * 1000) \div speed
        r1 == (r0 * 1000) % speed
        us == (r1 * 1000) \div speed
        r2 == (r1 * 1000) % speed
        up == IF 2 * r2 > speed \/ (2 * r2 = speed /\ us % 2 = 1) THEN 1 ELSE 0
    IN sec * MicrosPerSecond + ms * 1000 + us + up

\* ------------------------------------------------------------------------
\* estimate_traffic_light_delay, lines 190-243
\* ------------------------------------------------------------------------
DelayGreen == 0
DelayRedStart == 30
DelayRedMiddle == 20
DelayRedEnd == 5
DelayYellow == 5

CyclePosition(li, us) == (WholeSeconds(us) + li.offset) % li.cycle_time

RedTime(li) == li.cycle_time - li.green_time - li.yellow_time

EstimateTrafficLightDelay(li, us) ==
    LET cycle_position == CyclePosition(li, us)
        red_position == cycle_position - li.green_time - li.yellow_time
    IN IF cycle_position < li.green_time
       THEN [delay |-> DelayGreen, status |-> "green"]
       ELSE IF cycle_position < li.green_time + li.yellow_time
       THEN [delay |-> DelayYellow, status |-> "yellow"]
       ELSE IF 4 * red_position < RedTime(li)          \* red_fraction < 0.25
       THEN [delay |-> DelayRedStart, status |-> "red"]
       ELSE IF 4 * red_position < 3 * RedTime(li)      \* red_fraction < 0.75
       THEN [delay |-> DelayRedMiddle, status |-> "red"]
       ELSE [delay |-> DelayRedEnd, status |-> "red"]

\* ------------------------------------------------------------------------
\* Lights and call arguments the model draws from
\* ------------------------------------------------------------------------
YellowTime == 3

\* lines 100-107: a light as initialize_traffic_light_map stores it
LightOf(cycle, offset) ==
    [cycle_time |-> cycle, offset |-> offset,
     green_time |-> (4 * cycle) \div 10, yellow_time |-> YellowTime]

NoLight == LightOf(1, 0)

CycleTimes == {45, 60, 120}

Lights == {LightOf(c, o) : c \in CycleTimes, o \in {0, 17}}
          \cup {LightOf(c, c - 1) : c \in CycleTimes}

TimeSpan == 125       \* arrival times range over -TimeSpan .. TimeSpan seconds

HalfSecond == MicrosPerSecond \div 2

ArrivalTimes == {h * HalfSecond : h \in (-2 * TimeSpan) .. (2 * TimeSpan)}

NoEstimate == [called |-> FALSE, light |-> NoLight, t |-> 0, delay |-> 0, status |-> "none"]

Estimated(li, us) ==
    [called |-> TRUE, light |-> li, t |-> us,
     delay |-> EstimateTrafficLightDelay(li, us).delay,
     status |-> EstimateTrafficLightDelay(li, us).status]

\* ------------------------------------------------------------------------
\* optimize_arrival_time, lines 245-341
\* ------------------------------------------------------------------------
SpeedFloor == 500     \* 5 m/s
SpeedCeiling == 3000  \* 30 m/s
SpeedStep == 50       \* 0.5 m/s

\* line 286
MinSpeed(speed) == Max2((speed * 8) \div 10, SpeedFloor)

\* line 287
MaxSpeed(speed) == Min2((speed * 12) \div 10, SpeedCeiling)

\* int(x / 0.5) for a difference x of speeds: truncation towards zero
TruncSteps(x) == IF x >= 0 THEN x \div SpeedStep ELSE -((-x) \div SpeedStep)

\* line 296: len(range(int((max_speed - min_speed) / 0.5) + 1))
CandidateCount(speed) ==
    Max2(0, TruncSteps(MaxSpeed(speed) - MinSpeed(speed)) + 1)

\* line 296: min_speed + 0.5 * i
TestSpeed(speed, i) == MinSpeed(speed) + SpeedStep * i

NoPhase == [arrival |-> 0, delay |-> 0, status |-> "none"]

NoBest == [speed |-> 0, delay |-> 0, status |-> "none", arrival |-> 0]

NoAdvice == [returned |-> FALSE, raised |-> FALSE, success |-> FALSE, optimized |-> FALSE,
             suggested_speed |-> 0, time_saved |-> 0, current_status |-> "none",
             arrival_time |-> 0]

\* line 259
CannotAdvise == [returned |-> TRUE, raised |-> FALSE, success |-> FALSE, optimized |-> FALSE,
                 suggested_speed |-> 0, time_saved |-> 0, current_status |-> "none",
                 arrival_time |-> 0]

\* line 262: distance_to_light / current_speed with a speed of 0 raises
\* ZeroDivisionError, which nothing in the function catches
DivisionRaised == [returned |-> FALSE, raised |-> TRUE, success |-> FALSE, optimized |-> FALSE,
                   suggested_speed |-> 0, time_saved |-> 0, current_status |-> "none",
                   arrival_time |-> 0]

\* a check that lets a speed of 0 through
SpeedRejectedBelowZero(speed) == speed < 0

\* line 258: current_speed <= 0
SpeedRejected(speed) == speed <= 0

\* the early return reporting the lower scan bound instead of the current speed
AlreadyGreenLowerBound(speed, b) ==
    [returned |-> TRUE, raised |-> FALSE, success |-> TRUE, optimized |-> FALSE,
     suggested_speed |-> MinSpeed(speed), time_saved |-> 0, current_status |-> b.status,
     arrival_time |-> b.arrival]

\* lines 269-277
AlreadyGreen(speed, b) ==
    [returned |-> TRUE, raised |-> FALSE, success |-> TRUE, optimized |-> FALSE,
     suggested_speed |-> speed, time_saved |-> 0, current_status |-> b.status,
     arrival_time |-> b.arrival]

\* lines 311-341
Advised(speed, b, bst) ==
    [returned |-> TRUE, raised |-> FALSE, success |-> TRUE, optimized |-> (bst.speed # speed),
     suggested_speed |-> bst.speed, time_saved |-> b.delay - bst.delay,
     current_status |-> bst.status, arrival_time |-> bst.arrival]

\* lines 262-265
BasePhase(li, now, speed, metres) ==
    LET arrival == now + TravelMicros(metres, speed)
    IN [arrival |-> arrival,
        delay |-> EstimateTrafficLightDelay(li, arrival).delay,
        status |-> EstimateTrafficLightDelay(li, arrival).status]

CurrentTimes == {0, HalfSecond, 7 * MicrosPerSecond, 31 * MicrosPerSecond}

\* cm/s: -3, none, 4, 5, 11, 25 and 37.6 m/s
Speeds == {-300, 0, 400, 500, 1100, 2500, 3760}

MaxDistance == 3      \* distances to the light: 0, 50, ... , 50 * MaxDistance metres

Distances == {50 * k : k \in 0..MaxDistance}

\* a caller asks for the phase of a light at an arrival time
EstimateCall ==
    /\ adv_pc = "idle"
    /\ ~est.called
    /\ \E li \in Lights, t \in ArrivalTimes :
          est' = Estimated(li, t)
    /\ prev_est' = est
    /\ UNCHANGED <<adv_pc, light_info, current_time, current_speed, distance_to_light,
                   base, best, scan_i, scanned, advice>>
    /\ UNCHANGED notLightVars

\* the same light is asked about again, one cycle_time later
EstimateOneCycleLater ==
    /\ adv_pc = "idle"
    /\ est.called
    /\ ~prev_est.called
    /\ est' = Estimated(est.light, est.t + est.light.cycle_time * MicrosPerSecond)
    /\ prev_est' = est
    /\ UNCHANGED <<adv_pc, light_info, current_time, current_speed, distance_to_light,
                   base, best, scan_i, scanned, advice>>
    /\ UNCHANGED notLightVars

\* a caller invokes optimize_arrival_time
OptimizeArrivalTimeCall ==
    /\ adv_pc = "idle"
    /\ ~est.called
    /\ \E li \in Lights, now \in CurrentTimes, v \in Speeds, d \in Distances :
          /\ light_info' = li
          /\ current_time' = now
          /\ current_speed' = v
          /\ distance_to_light' = d
    /\ adv_pc' = "entered"
    /\ UNCHANGED <<est, prev_est, base, best, scan_i, scanned, advice>>
    /\ UNCHANGED notLightVars

\* lines 258-262: the speed is refused, or it is 0 and the division raises
RejectSpeed ==
    /\ adv_pc = "entered"
    /\ SpeedRejected(current_speed) \/ current_speed = 0
    /\ advice' = IF SpeedRejected(current_speed) THEN CannotAdvise ELSE DivisionRaised
    /\ adv_pc' = "done"
    /\ UNCHANGED <<est, prev_est, light_info, current_time, current_speed,
                   distance_to_light, base, best, scan_i, scanned>>
    /\ UNCHANGED notLightVars

\* lines 261-277
ReturnAlreadyGreen ==
    /\ adv_pc = "entered"
    /\ ~SpeedRejected(current_speed)
    /\ current_speed # 0
    /\ LET b == BasePhase(light_info, current_time, current_speed, distance_to_light)
       IN /\ b.status = "green"
          /\ base' = b
          /\ est' = Estimated(light_info, b.arrival)
          /\ prev_est' = est
          /\ advice' = AlreadyGreen(current_speed, b)
    /\ adv_pc' = "done"
    /\ UNCHANGED <<light_info, current_time, current_speed, distance_to_light, best,
                   scan_i, scanned>>
    /\ UNCHANGED notLightVars

\* lines 261-293
BeginScan ==
    /\ adv_pc = "entered"
    /\ ~SpeedRejected(current_speed)
    /\ current_speed # 0
    /\ LET b == BasePhase(light_info, current_time, current_speed, distance_to_light)
       IN /\ b.status # "green"
          /\ base' = b
          /\ est' = Estimated(light_info, b.arrival)
          /\ prev_est' = est
          /\ best' = [speed |-> current_speed, delay |-> b.delay, status |-> b.status,
                      arrival |-> b.arrival]
    /\ scan_i' = 0
    /\ scanned' = <<>>
    /\ adv_pc' = "scan"
    /\ UNCHANGED <<light_info, current_time, current_speed, distance_to_light, advice>>
    /\ UNCHANGED notLightVars

\* a comparison that lets an equal delay replace the best one
ImprovesOrEqual(test_delay, best_delay) == test_delay <= best_delay

\* line 301: test_delay < best_delay
Improves(test_delay, best_delay) == test_delay < best_delay

\* lines 296-309: one candidate speed
ScanStep ==
    /\ adv_pc = "scan"
    /\ scan_i < CandidateCount(current_speed)
    /\ LET test_speed == TestSpeed(current_speed, scan_i)
           test_arrival_time == current_time + TravelMicros(distance_to_light, test_speed)
           test == EstimateTrafficLightDelay(light_info, test_arrival_time)
       IN /\ est' = Estimated(light_info, test_arrival_time)
          /\ prev_est' = est
          /\ scanned' = Append(scanned, test_speed)
          /\ best' = IF Improves(test.delay, best.delay)
                     THEN [speed |-> test_speed, delay |-> test.delay,
                           status |-> test.status, arrival |-> test_arrival_time]
                     ELSE best
          /\ scan_i' = IF test.status = "green"
                       THEN CandidateCount(current_speed)     \* break
                       ELSE scan_i + 1
    /\ UNCHANGED <<adv_pc, light_info, current_time, current_speed, distance_to_light,
                   base, advice>>
    /\ UNCHANGED notLightVars

\* lines 311-341
ReturnAdvice ==
    /\ adv_pc = "scan"
    /\ scan_i >= CandidateCount(current_speed)
    /\ advice' = Advised(current_speed, base, best)
    /\ adv_pc' = "done"
    /\ UNCHANGED <<est, prev_est, light_info, current_time, current_speed,
                   distance_to_light, base, best, scan_i, scanned>>
    /\ UNCHANGED notLightVars

LightNext ==
    \/ EstimateCall
    \/ EstimateOneCycleLater
    \/ OptimizeArrivalTimeCall
    \/ RejectSpeed
    \/ ReturnAlreadyGreen
    \/ BeginScan
    \/ ScanStep
    \/ ReturnAdvice

\* ------------------------------------------------------------------------
\* Module random.  The generator is a 16-bit linear congruential generator
\* standing for the Mersenne Twister: what matters to the model is that
\* seed() fixes the state and that every draw advances it.
\* Coordinates are in units of 0.00001 degree, the precision of a map key.
\* ------------------------------------------------------------------------
RngModulus == 65536
RngResolution == 256

\* random.seed(v)
Seeded(v) == (v * 7919 + 1) % RngModulus

\* the state after one draw
Drawn(s) == (25173 * s + 13849) % RngModulus

\* the number a state yields: random.random() is Uniform(s) / 256
Uniform(s) == s \div (RngModulus \div RngResolution)

\* random.randint(lo, hi) from the state s reached by the draw
RandInt(s, lo, hi) == lo + (Uniform(s) * (hi - lo + 1)) \div RngResolution

\* int(x) for a quotient a / b with b > 0: truncation towards zero
TruncDiv(a, b) == IF a >= 0 THEN a \div b ELSE -((-a) \div b)

\* ------------------------------------------------------------------------
\* initialize_traffic_light_map, lines 40-110
\* a region is <<min_lon, min_lat, max_lon, max_lat>>
\* ------------------------------------------------------------------------
MinLights == 10
MaxLights == 100

\* line 57: int((min_lon + max_lon + min_lat + max_lat) * 1000) % 100000
\* (computed exactly; the rounding error of the floating-point sum is left out)
SeedVal(b) == TruncDiv(b[1] + b[3] + b[2] + b[4], 100) % 100000

\* a region whose seed ignores the region: the generator is left as it is
SeedKept(b, s) == s

\* line 58: random.seed(seed_val)
SeedFor(b, s) == Seeded(SeedVal(b))

\* lines 65-67: area_size * 50000, clamped
NumLights(b) ==
    Max2(MinLights, Min2(MaxLights, TruncDiv((b[3] - b[1]) * (b[4] - b[2]), 200000)))

\* lines 73-74: lo + (hi - lo) * (0.5 + (random() - 0.5) * distance_factor),
\* rounded to the map key's precision (line 100)
Placed(lo, hi, r, df) ==
    LET num == (hi - lo) * (32768 + (r - 128) * df)
    IN lo + (2 * num + RngModulus) \div (2 * RngModulus)

\* lines 77-89: the class by the distance from the centre over the distance
\* of a corner from the centre (compared squared, coordinates doubled); the
\* position is taken at the key's precision
IntersectionType(b, lon, lat) ==
    LET dx == 2 * lon - (b[1] + b[3])
        dy == 2 * lat - (b[2] + b[4])
        d2 == dx * dx + dy * dy
        m2 == (b[3] - b[1]) * (b[3] - b[1]) + (b[4] - b[2]) * (b[4] - b[2])
    IN IF m2 = 0 \/ 25 * d2 < m2 THEN "complex_intersection"
       ELSE IF 25 * d2 < 4 * m2 THEN "large_intersection"
       ELSE IF 100 * d2 < 49 * m2 THEN "medium_intersection"
       ELSE "small_intersection"

\* one upper limit for every class
CycleMaxFlat(type) == 180

\* lines 18-23
CycleMin(type) ==
    CASE type = "small_intersection" -> 45
      [] type = "medium_intersection" -> 60
      [] type = "large_intersection" -> 90
      [] OTHER -> 120

CycleMax(type) ==
    CASE type = "small_intersection" -> 60
      [] type = "medium_intersection" -> 90
      [] type = "large_intersection" -> 120
      [] OTHER -> 180

\* line 100: TRAFFIC_LIGHT_MAP[key] = info; an existing key keeps its place
PutLight(m, e) ==
    IF \E k \in 1..Len(m) : m[k].key = e.key
    THEN [k \in 1..Len(m) |-> IF m[k].key = e.key THEN e ELSE m[k]]
    ELSE Append(m, e)

\* lines 71-107: one pass of the loop, from the map and the generator state
\* the passes before have left
GeneratedLight(before, b) ==
    LET s1 == Drawn(before.rng)
        s2 == Drawn(s1)
        s3 == Drawn(s2)
        s4 == Drawn(s3)
        s5 == Drawn(s4)
        distance_factor == Uniform(s1)
        lon == Placed(b[1], b[3], Uniform(s2), distance_factor)
        lat == Placed(b[2], b[4], Uniform(s3), distance_factor)
        intersection_type == IntersectionType(b, lon, lat)
        cycle_time == RandInt(s4, CycleMin(intersection_type), CycleMax(intersection_type))
        offset == RandInt(s5, 0, cycle_time - 1)
        e == [key |-> <<lon, lat>>, type |-> intersection_type,
              cycle_time |-> cycle_time, offset |-> offset,
              green_time |-> (4 * cycle_time) \div 10, yellow_time |-> YellowTime]
    IN [map |-> PutLight(before.map, e), rng |-> s5]

\* line 70: the map and the generator state before the loop and after each
\* of its first n passes, on a map m and a generator in state s
RECURSIVE LoopPasses(_, _, _, _)
LoopPasses(n, s, b, m) ==
    IF n = 0 THEN <<[map |-> m, rng |-> s]>>
    ELSE LET before == LoopPasses(n - 1, s, b, m)
         IN Append(before, GeneratedLight(before[n], b))

\* lines 70-107: n passes of the loop
GenerateLights(n, s, b, m) == LoopPasses(n, s, b, m)[n + 1]

\* lines 48-110: the map and the generator state the call leaves behind
InitializedMap(b, s) == GenerateLights(NumLights(b), SeedFor(b, s), b, <<>>)

\* a reset that keeps what the map holds
ResetMapKept(old) == old

\* line 51: TRAFFIC_LIGHT_MAP = {}
ResetMap(old) == <<>>

\* lines 48-110 on a process whose map is `old`
Reinitialized(old, b, s) == GenerateLights(NumLights(b), SeedFor(b, s), b, ResetMap(old))

\* ------------------------------------------------------------------------
\* detect_traffic_lights_on_route, lines 112-188
\* ------------------------------------------------------------------------
Buffer == 1000        \* 0.01 degree
DefaultRadius == 27   \* 30 m * 0.000009 degree/m = 0.00027 degree
FixedPoint == 100     \* distances along the route are kept to 1/100 unit

\* floor of the square root, by bisection
RECURSIVE SqrtBetween(_, _, _)
SqrtBetween(x, lo, hi) ==
    IF lo >= hi THEN lo
    ELSE LET mid == (lo + hi + 1) \div 2
         IN IF mid * mid <= x THEN SqrtBetween(x, mid, hi) ELSE SqrtBetween(x, lo, mid - 1)

\* line 152: math.sqrt(dx**2 + dy**2) in 1/100 unit
SegmentDist(p, q) ==
    LET dx == FixedPoint * (q[1] - p[1])
        dy == FixedPoint * (q[2] - p[2])
    IN SqrtBetween(dx * dx + dy * dy, 0, 46340)

\* lines 145-155: route_distances; at the first pass of the loop prev_point
\* is still None, so the segment from point 0 to point 1 is not added
RECURSIVE RouteDistances(_, _)
RouteDistances(route, n) ==
    IF n = 0 THEN <<>>
    ELSE IF n = 1 THEN <<0>>
    ELSE LET before == RouteDistances(route, n - 1)
             segment_dist == IF n >= 3 THEN SegmentDist(route[n - 1], route[n]) ELSE 0
         IN Append(before, before[n - 1] + segment_dist)

Abs(x) == IF x < 0 THEN -x ELSE x

\* the quick test of lines 165-166 alone, without the exact measurement
WithinRadiusBox(point, key, radius) ==
    /\ Abs(point[1] - key[1]) <= radius
    /\ Abs(point[2] - key[2]) <= radius

\* lines 165-171
WithinRadius(point, key, radius) ==
    /\ Abs(point[1] - key[1]) <= radius
    /\ Abs(point[2] - key[2]) <= radius
    /\ (point[1] - key[1]) * (point[1] - key[1])
           + (point[2] - key[2]) * (point[2] - key[2]) <= radius * radius

FoundLight(e, i, dist) ==
    [coordinates |-> e.key, distance_along_route |-> dist, route_point_index |-> i,
     cycle_time |-> e.cycle_time, type |-> e.type, offset |-> e.offset,
     green_time |-> e.green_time, yellow_time |-> e.yellow_time]

\* a check that lets every light through again
UncheckedAlways(key, checked) == TRUE

\* line 167: light_coords not in checked_lights
Unchecked(key, checked) == key \notin checked

\* lines 161-182: the lights of the map, entry k on, against route point i
\* (the keys of a map are distinct, so no entry of this pass can be kept out
\* by another entry of the same pass)
ScanLights(point, i, dist, m, radius, k, acc) ==
    LET Hit(e) == /\ WithinRadius(point, e.key, radius)
                  /\ Unchecked(e.key, acc.checked)
        hits == SelectSeq(SubSeq(m, k, Len(m)), Hit)
    IN [found |-> acc.found \o [n \in 1..Len(hits) |-> FoundLight(hits[n], i, dist)],
        checked |-> acc.checked \cup {hits[n].key : n \in 1..Len(hits)}]

\* lines 160-182: the route points, point i (0-based) on
RECURSIVE Scan(_, _, _, _, _, _)
Scan(route, dists, m, radius, i, acc) ==
    IF i >= Len(route) THEN acc.found
    ELSE Scan(route, dists, m, radius, i + 1,
              ScanLights(At(route, i), i, At(dists, i), m, radius, 1, acc))

\* the order turned round
PrecedesDescending(x, y) == x.distance_along_route >= y.distance_along_route

\* x precedes y in the order the sort establishes
Precedes(x, y) == x.distance_along_route <= y.distance_along_route

\* line 185: found_lights.sort(key=...), a stable sort (by insertion)
RECURSIVE SortLights(_)
SortLights(l) ==
    IF Len(l) <= 1 THEN l
    ELSE LET front == SortLights(SubSeq(l, 1, Len(l) - 1))
             x == l[Len(l)]
             keep == {k \in 1..Len(front) : Precedes(front[k], x)}
             pos == IF keep = {} THEN 0 ELSE CHOOSE k \in keep : \A j \in keep : j <= k
         IN SubSeq(front, 1, pos) \o <<x>> \o SubSeq(front, pos + 1, Len(front))

\* lines 137-188, on a map that exists
Detected(route, m, radius) ==
    SortLights(Scan(route, RouteDistances(route, Len(route)), m, radius, 0,
                    [found |-> <<>>, checked |-> {}]))

\* lines 124-135: the route's bounding box, widened by the buffer
MinOf(S) == CHOOSE x \in S : \A y \in S : x <= y

MaxOf(S) == CHOOSE x \in S : \A y \in S : x >= y

\* the bounding box without the buffer
RouteRegionTight(route) ==
    LET lons == {route[k][1] : k \in 1..Len(route)}
        lats == {route[k][2] : k \in 1..Len(route)}
    IN <<MinOf(lons), MinOf(lats), MaxOf(lons), MaxOf(lats)>>

RouteRegion(route) ==
    LET lons == {route[k][1] : k \in 1..Len(route)}
        lats == {route[k][2] : k \in 1..Len(route)}
    IN <<MinOf(lons) - Buffer, MinOf(lats) - Buffer, MaxOf(lons) + Buffer, MaxOf(lats) + Buffer>>

\* ------------------------------------------------------------------------
\* Regions and routes the model draws from
\* ------------------------------------------------------------------------
\* the scenario region [[0,0],[0.01,0.01]] and the region detect derives
\* from a route through (500, 500) alone
Regions == { <<0, 0, 1000, 1000>>, <<-500, -500, 1500, 1500>> }

MaxRoute == 3         \* route geometries hold 0 .. MaxRoute points

\* int(time.time() * 1000) % 100000 at the moments other users seed the generator
ClockSeeds == {77}

RoutePoints == { <<500, 500>>, <<510, 540>>, <<505, 475>> }

Routes == UNION {[1..n -> RoutePoints] : n \in 0..MaxRoute}

\* ------------------------------------------------------------------------
\* The map: actions
\* ------------------------------------------------------------------------
\* the record of first initializations after one of region b from state s
Recorded(b, s, m) ==
    IF \E p \in initialized : p.region = b THEN initialized
    ELSE initialized \cup {[region |-> b, map |-> m, seed_state |-> s]}

Reseeded(b, s) == \E p \in initialized : p.region = b /\ p.seed_state # s

\* initialize_traffic_light_map(region_bounds)
InitializeTrafficLightMap ==
    /\ detect_outcome = "none"
    /\ \E b \in Regions :
          LET g == Reinitialized(TRAFFIC_LIGHT_MAP, b, rng)
          IN /\ TRAFFIC_LIGHT_MAP' = g.map
             /\ rng' = g.rng
             /\ initialized' = Recorded(b, rng, g.map)
             /\ reseeded' = Reseeded(b, rng)
             /\ last_region' = b
    /\ UNCHANGED <<route_geometry, detect_outcome, found_lights>>
    /\ UNCHANGED notMapVars

\* another user of module random: simulate_traffic_conditions seeds the
\* shared generator from the clock and draws once (route_optimizer.py 628-629)
OtherRandomUse ==
    /\ detect_outcome = "none"
    /\ \E v \in ClockSeeds : rng' = Drawn(Seeded(v))
    /\ UNCHANGED <<TRAFFIC_LIGHT_MAP, initialized, reseeded, last_region, route_geometry,
                   detect_outcome, found_lights>>
    /\ UNCHANGED notMapVars

\* detect_traffic_lights_on_route on an existing map; route_geometry,
\* detect_outcome and found_lights hold the call and its result until the
\* caller has taken it
DetectOnMap ==
    /\ Len(TRAFFIC_LIGHT_MAP) > 0
    /\ detect_outcome = "none"
    /\ \E route \in Routes :
          /\ route_geometry' = route
          /\ found_lights' = Detected(route, TRAFFIC_LIGHT_MAP, DefaultRadius)
    /\ detect_outcome' = "returned"
    /\ UNCHANGED <<TRAFFIC_LIGHT_MAP, rng, initialized, reseeded, last_region>>
    /\ UNCHANGED notMapVars

\* detect_traffic_lights_on_route with no map yet: lines 123-135 first
DetectWithoutMap ==
    /\ Len(TRAFFIC_LIGHT_MAP) = 0
    /\ detect_outcome = "none"
    /\ \E route \in Routes :
          /\ Len(route) > 0
          /\ LET b == RouteRegion(route)
                 g == Reinitialized(TRAFFIC_LIGHT_MAP, b, rng)
             IN /\ TRAFFIC_LIGHT_MAP' = g.map
                /\ rng' = g.rng
                /\ initialized' = Recorded(b, rng, g.map)
                /\ reseeded' = Reseeded(b, rng)
                /\ last_region' = b
                /\ route_geometry' = route
                /\ found_lights' = Detected(route, g.map, DefaultRadius)
    /\ detect_outcome' = "returned"
    /\ UNCHANGED notMapVars

\* no map and an empty geometry: min() of an empty list raises ValueError
DetectRaises ==
    /\ Len(TRAFFIC_LIGHT_MAP) = 0
    /\ detect_outcome = "none"
    /\ route_geometry' = <<>>
    /\ found_lights' = <<>>
    /\ detect_outcome' = "raised"
    /\ UNCHANGED <<TRAFFIC_LIGHT_MAP, rng, initialized, reseeded, last_region>>
    /\ UNCHANGED notMapVars

\* the caller of detect_traffic_lights_on_route takes the result
TakeFoundLights ==
    /\ detect_outcome # "none"
    /\ route_geometry' = <<>>
    /\ detect_outcome' = "none"
    /\ found_lights' = <<>>
    /\ UNCHANGED <<TRAFFIC_LIGHT_MAP, rng, initialized, reseeded, last_region>>
    /\ UNCHANGED notMapVars

MapNext ==
    \/ InitializeTrafficLightMap
    \/ OtherRandomUse
    \/ DetectOnMap
    \/ DetectWithoutMap
    \/ DetectRaises
    \/ TakeFoundLights

\* ------------------------------------------------------------------------
\* initialize_traffic_light_map run by several threads.  The function takes
\* no lock; a thread can be preempted between any two statements.  The steps
\* below are coarser (the reset, the seeding, one pass of the loop, the
\* return), so every interleaving of the model is one of the program.
\* ------------------------------------------------------------------------
Threads == {1, 2}

MaxSwitches == 1      \* preemptions of a thread that has not returned yet

\* two regions of the smallest map
ThreadRegions == { <<0, 0, 1000, 1000>>, <<0, 0, 1200, 1000>> }

NotObserved == [seen |-> FALSE, map |-> <<>>]

\* thread t may take the next step
Scheduled(t) ==
    IF running \in {0, t} THEN TRUE
    ELSE init_pc[running] = "done" \/ switches < MaxSwitches

\* the thread before did not return and is preempted by t
Preempts(t) ==
    IF running \in {0, t} THEN FALSE ELSE init_pc[running] # "done"

\* the bookkeeping of a step of thread t
Step(t) ==
    /\ Scheduled(t)
    /\ running' = t
    /\ switches' = IF Preempts(t) THEN switches + 1 ELSE switches

\* what a step of a thread leaves alone
notThreadVars == <<initialized, reseeded, last_region, route_geometry, detect_outcome,
                   found_lights, routeVars, lightVars, trafficVars, analyzeVars>>

\* line 51: TRAFFIC_LIGHT_MAP = {}
ThreadReset ==
    \E t \in Threads :
        /\ init_pc[t] = "idle"
        /\ Step(t)
        /\ \E b \in ThreadRegions :
              /\ \A u \in Threads \ {t} : init_pc[u] = "idle" \/ init_region[u] # b
              /\ init_region' = [init_region EXCEPT ![t] = b]
        /\ TRAFFIC_LIGHT_MAP' = ResetMap(TRAFFIC_LIGHT_MAP)
        /\ init_pc' = [init_pc EXCEPT ![t] = "reset"]
        /\ UNCHANGED <<rng, init_left, observed>>
        /\ UNCHANGED notThreadVars

\* lines 54-67: the seeding and the number of lights
ThreadSeed ==
    \E t \in Threads :
        /\ init_pc[t] = "reset"
        /\ Step(t)
        /\ rng' = SeedFor(init_region[t], rng)
        /\ init_left' = [init_left EXCEPT ![t] = NumLights(init_region[t])]
        /\ init_pc' = [init_pc EXCEPT ![t] = "loop"]
        /\ UNCHANGED <<TRAFFIC_LIGHT_MAP, init_region, observed>>
        /\ UNCHANGED notThreadVars

\* lines 70-107: one pass of the loop, on the generator and the map as they
\* are now
ThreadLight ==
    \E t \in Threads :
        /\ init_pc[t] = "loop"
        /\ init_left[t] > 0
        /\ Step(t)
        /\ LET g == GenerateLights(1, rng, init_region[t], TRAFFIC_LIGHT_MAP)
           IN /\ TRAFFIC_LIGHT_MAP' = g.map
              /\ rng' = g.rng
        /\ init_left' = [init_left EXCEPT ![t] = init_left[t] - 1]
        /\ UNCHANGED <<init_pc, init_region, observed>>
        /\ UNCHANGED notThreadVars

\* lines 109-110
ThreadReturn ==
    \E t \in Threads :
        /\ init_pc[t] = "loop"
        /\ init_left[t] = 0
        /\ Step(t)
        /\ init_pc' = [init_pc EXCEPT ![t] = "done"]
        /\ UNCHANGED <<TRAFFIC_LIGHT_MAP, rng, init_region, init_left, observed>>
        /\ UNCHANGED notThreadVars

\* detect_traffic_lights_on_route, line 161, in another thread while an
\* initialization is under way: the map it reads
ReaderObserves ==
    /\ ~observed.seen
    /\ \E t \in Threads : init_pc[t] \in {"reset", "loop"}
    /\ observed' = [seen |-> TRUE, map |-> TRAFFIC_LIGHT_MAP]
    /\ UNCHANGED <<TRAFFIC_LIGHT_MAP, rng, init_pc, init_region, init_left, running,
                   switches>>
    /\ UNCHANGED notThreadVars

ThreadsNext ==
    \/ ThreadReset
    \/ ThreadSeed
    \/ ThreadLight
    \/ ThreadReturn
    \/ ReaderObserves

\* ------------------------------------------------------------------------
\* simulate_traffic_conditions, route_optimizer.py lines 568-651
\* Probabilities are in units of 1/256000: thousandths times the resolution
\* of the generator, so that base_probability + random_factor is integral.
\* They are computed exactly: the rounding error of the floating-point sums,
\* which decides the level when a sum meets a threshold exactly, is left out.
\* ------------------------------------------------------------------------
\* lines 597-606, in thousandths
BaseProbability(hour) ==
    IF 7 <= hour /\ hour <= 9 THEN 700
    ELSE IF 16 <= hour /\ hour <= 19 THEN 800
    ELSE IF 10 <= hour /\ hour <= 15 THEN 300
    ELSE IF 20 <= hour /\ hour <= 23 THEN 200
    ELSE 100

\* lines 609-625, in thousandths; light_level in tenths, road_complexity in
\* hundredths, day_of_week 0 = Monday
AdjustedProbability(hour, light_level, visibility_reduced, road_complexity, day_of_week) ==
    LET p0 == BaseProbability(hour)
        p1 == IF light_level < 30 THEN p0 - 100 ELSE p0
        p2 == IF visibility_reduced THEN p1 + 150 ELSE p1
        p3 == IF road_complexity > 100 THEN p2 + 100 ELSE p2
    IN IF day_of_week >= 5 THEN (p3 * 7) \div 10 ELSE p3

\* line 629: random.random() * 0.3 - 0.15, from the state s the draw reached
RandomFactor(s) == 300 * Uniform(s) - 150 * RngResolution

\* line 632: max(0, min(1, x))
Clamped(x) == Max2(0, Min2(1000 * RngResolution, x))

\* a mapping that keeps one more level above 0.8
TrafficLevelOpen(probability) ==
    IF probability < 200 * RngResolution THEN 0
    ELSE IF probability < 500 * RngResolution THEN 1
    ELSE IF probability < 800 * RngResolution THEN 2
    ELSE IF probability < 1000 * RngResolution THEN 3
    ELSE 4

\* lines 635-642
TrafficLevel(probability) ==
    IF probability < 200 * RngResolution THEN 0
    ELSE IF probability < 500 * RngResolution THEN 1
    ELSE IF probability < 800 * RngResolution THEN 2
    ELSE 3

\* the default with the evening window of optimize_route
FallbackLevelShortEvening(hour) ==
    IF (7 <= hour /\ hour <= 9) \/ (16 <= hour /\ hour <= 18) THEN 2 ELSE 1

\* lines 648-651
FallbackLevel(hour) ==
    IF (7 <= hour /\ hour <= 9) \/ (16 <= hour /\ hour <= 19) THEN 2 ELSE 1

NoTraffic ==
    [called |-> FALSE, failed |-> FALSE, raised |-> FALSE, hour |-> 0, day_of_week |-> 0,
     light_level |-> 0, visibility_reduced |-> FALSE, road_complexity |-> 0,
     adjusted |-> 0, level |-> 0]

\* what the clock and the collaborators can hand the simulation
DayHours == 0..23

DaysOfWeek == {0, 4, 5, 6}

LightLevels == {29, 30}

RoadComplexities == {0, 100, 101}

\* clock seeds whose first draw is 0, 42/256, 128/256, 170/256 and 255/256
JitterSeeds == {260, 158, 279, 139, 336}

\* seeds get_accident_risk gives the generator (line 514) before it fails
RiskSeeds == {5}

\* lines 568-642: every collaborator answers
SimulateTrafficConditions ==
    /\ ~traffic.called
    /\ \E hour \in DayHours, day \in DaysOfWeek, ll \in LightLevels,
          vr \in BOOLEAN, rc \in RoadComplexities, v \in JitterSeeds :
          LET s == Drawn(Seeded(v))
              adjusted == RngResolution * AdjustedProbability(hour, ll, vr, rc, day)
                              + RandomFactor(s)
          IN /\ rng' = s
             /\ traffic' = [called |-> TRUE, failed |-> FALSE, raised |-> FALSE,
                            hour |-> hour, day_of_week |-> day, light_level |-> ll,
                            visibility_reduced |-> vr, road_complexity |-> rc,
                            adjusted |-> adjusted,
                            level |-> TrafficLevel(Clamped(adjusted))]
    /\ UNCHANGED <<TRAFFIC_LIGHT_MAP, initialized, reseeded, last_region, route_geometry,
                   detect_outcome, found_lights>>
    /\ UNCHANGED notTrafficVars

\* lines 589-594 and 644-651: a collaborator raises; get_accident_risk may
\* have seeded the generator before it did
SimulateTrafficFallback ==
    /\ ~traffic.called
    /\ \E hour \in DayHours, day \in DaysOfWeek :
          traffic' = [NoTraffic EXCEPT !.called = TRUE, !.failed = TRUE, !.hour = hour,
                                       !.day_of_week = day,
                                       !.level = FallbackLevel(hour)]
    /\ \/ rng' = rng
       \/ \E v \in RiskSeeds : rng' = Drawn(Seeded(v))
    /\ UNCHANGED <<TRAFFIC_LIGHT_MAP, initialized, reseeded, last_region, route_geometry,
                   detect_outcome, found_lights>>
    /\ UNCHANGED notTrafficVars

\* the caller takes the level
TakeTrafficLevel ==
    /\ traffic.called
    /\ traffic' = NoTraffic
    /\ UNCHANGED <<mapVars, notTrafficVars>>

TrafficNext ==
    \/ SimulateTrafficConditions
    \/ SimulateTrafficFallback
    \/ TakeTrafficLevel

\* ------------------------------------------------------------------------
\* analyze_route_for_lights, lines 343-448.  Distances are in centimetres
\* here: a distance_along_route of one 1/100 unit (1e-7 degree) is 1.11 cm.
\* ------------------------------------------------------------------------
\* line 396: light['distance_along_route'] * 111000, in cm
LightDistance(light) == (light.distance_along_route * 111) \div 100

\* timedelta(seconds=distance / speed) in microseconds for a distance in cm
TravelMicrosCm(cm, speed) ==
    LET sec == cm \div speed
        r0 == cm % speed
        ms == (r0 * 1000) \div speed
        r1 == (r0 * 1000) % speed
        us == (r1 * 1000) \div speed
        r2 == (r1 * 1000) % speed
        up == IF 2 * r2 > speed \/ (2 * r2 = speed /\ us % 2 = 1) THEN 1 ELSE 0
    IN sec * MicrosPerSecond + ms * 1000 + us + up

\* lines 262-265, the distance in cm
BasePhaseCm(li, now, speed, cm) ==
    LET arrival == now + TravelMicrosCm(cm, speed)
    IN [arrival |-> arrival,
        delay |-> EstimateTrafficLightDelay(li, arrival).delay,
        status |-> EstimateTrafficLightDelay(li, arrival).status]

\* lines 296-309: the loop over the candidates, candidate i on
RECURSIVE ScanFrom(_, _, _, _, _, _)
ScanFrom(li, now, speed, cm, i, bst) ==
    IF i >= CandidateCount(speed) THEN bst
    ELSE LET test_speed == TestSpeed(speed, i)
             test_arrival_time == now + TravelMicrosCm(cm, test_speed)
             test == EstimateTrafficLightDelay(li, test_arrival_time)
             nxt == IF Improves(test.delay, bst.delay)
                    THEN [speed |-> test_speed, delay |-> test.delay,
                          status |-> test.status, arrival |-> test_arrival_time]
                    ELSE bst
         IN IF test.status = "green" THEN nxt
            ELSE ScanFrom(li, now, speed, cm, i + 1, nxt)

\* optimize_arrival_time(light_info, current_time, current_speed, distance_to_light)
\* as analyze_route_for_lights calls it, lines 245-341
OptimizeArrivalTime(li, now, speed, cm) ==
    IF SpeedRejected(speed) THEN CannotAdvise
    ELSE LET b == BasePhaseCm(li, now, speed, cm)
         IN IF b.status = "green" THEN AlreadyGreen(speed, b)
            ELSE Advised(speed, b,
                         ScanFrom(li, now, speed, cm, 0,
                                  [speed |-> speed, delay |-> b.delay, status |-> b.status,
                                   arrival |-> b.arrival]))

NoReport == [outcome |-> "pending", kind |-> "none", success |-> FALSE,
             total_original_delay |-> 0, total_optimized_delay |-> 0,
             total_time_saved |-> 0]

\* line 364: {"success": False, "message": ...}
NoRouteData == [outcome |-> "returned", kind |-> "failure", success |-> FALSE,
                total_original_delay |-> 0, total_optimized_delay |-> 0,
                total_time_saved |-> 0]

\* lines 379-383: {"success": True, "message": ..., "traffic_lights": []}
NoLightsOnRoute == [outcome |-> "returned", kind |-> "no_lights", success |-> TRUE,
                    total_original_delay |-> 0, total_optimized_delay |-> 0,
                    total_time_saved |-> 0]

\* an exception leaves analyze_route_for_lights: nothing in it catches one
AnalysisRaised == [outcome |-> "raised", kind |-> "none", success |-> FALSE,
                   total_original_delay |-> 0, total_optimized_delay |-> 0,
                   total_time_saved |-> 0]

RECURSIVE SumOriginal(_)
SumOriginal(done) ==
    IF Len(done) = 0 THEN 0
    ELSE SumOriginal(SubSeq(done, 1, Len(done) - 1)) + done[Len(done)].original_delay

RECURSIVE SumOptimized(_)
SumOptimized(done) ==
    IF Len(done) = 0 THEN 0
    ELSE SumOptimized(SubSeq(done, 1, Len(done) - 1)) + done[Len(done)].optimized_delay

\* the subtraction with its operands exchanged
TimeSavedTurned(original, optimized) == optimized - original

\* line 436: total_original_delay - total_optimized_delay
TimeSaved(original, optimized) == original - optimized

\* lines 355-361 and 427-448: the report of a finished loop
Report(done) ==
    [outcome |-> "returned", kind |-> "report", success |-> TRUE,
     total_original_delay |-> SumOriginal(done),
     total_optimized_delay |-> SumOptimized(done),
     total_time_saved |-> TimeSaved(SumOriginal(done), SumOptimized(done))]

\* lines 394-425: the entry of light i (0-based) when the running time is now
AnalyzedLight(found, i, start, now, speed) ==
    LET light == At(found, i)
        light_distance == LightDistance(light)
        arrival_time == start + TravelMicrosCm(light_distance, speed)
        original == EstimateTrafficLightDelay(light, arrival_time)
        previous == IF i > 0 THEN LightDistance(At(found, i - 1)) ELSE 0
        optimization == OptimizeArrivalTime(light, now, speed, light_distance - previous)
    IN [position |-> i + 1,
        distance |-> light_distance,
        arrival_time |-> arrival_time,
        original_delay |-> original.delay,
        light_status |-> original.status,
        optimization |-> optimization,
        distance_to_light |-> light_distance - previous,
        time_before |-> now,
        optimized_delay |-> IF optimization.optimized THEN 0 ELSE original.delay,
        time_after |-> IF optimization.optimized THEN optimization.arrival_time
                       ELSE arrival_time + original.delay * MicrosPerSecond]

\* datetime.now(pytz.UTC) at line 391, microseconds since the epoch
StartTimes == {0, 20 * MicrosPerSecond, 45 * MicrosPerSecond}

\* the speeds a caller passes: -3, 0, 5 and 11 m/s (the default)
AverageSpeeds == {-300, 0, 500, 1100}

NoRouteArgument == [kind |-> "none", all_geometry |-> <<>>]

\* route_data: None or empty, a dict without 'segments', or a dict whose
\* segments' geometries join to all_geometry (empty when no segment has one)
RouteData ==
    {[kind |-> "empty", all_geometry |-> <<>>], [kind |-> "no_segments", all_geometry |-> <<>>]}
    \cup {[kind |-> "segments", all_geometry |-> r] : r \in Routes}

\* an explicit initialization before any analysis, as the route optimizer
\* does for its region
InitializeBeforeAnalysis ==
    /\ an_pc = "idle"
    /\ Len(TRAFFIC_LIGHT_MAP) = 0
    /\ \E b \in Regions :
          LET g == Reinitialized(TRAFFIC_LIGHT_MAP, b, rng)
          IN /\ TRAFFIC_LIGHT_MAP' = g.map
             /\ rng' = g.rng
             /\ initialized' = Recorded(b, rng, g.map)
             /\ reseeded' = Reseeded(b, rng)
             /\ last_region' = b
    /\ UNCHANGED analyzeVars
    /\ UNCHANGED notAnalyzeVars

\* lines 363-364: no route data, or no 'segments' in it
AnalyzeWithoutData ==
    /\ an_pc = "idle"
    /\ \E d \in RouteData, v \in AverageSpeeds :
          /\ d.kind # "segments"
          /\ route_data' = d
          /\ average_speed_ms' = v
    /\ report' = NoRouteData
    /\ an_pc' = "done"
    /\ UNCHANGED <<lights, start_time, an_current_time, traffic_lights>>
    /\ UNCHANGED <<TRAFFIC_LIGHT_MAP, rng, initialized, reseeded, last_region>>
    /\ UNCHANGED notAnalyzeVars

\* lines 367-377 and 123-128: no geometry and no map; min() of an empty
\* list raises ValueError inside detect_traffic_lights_on_route
AnalyzeDetectRaises ==
    /\ an_pc = "idle"
    /\ Len(TRAFFIC_LIGHT_MAP) = 0
    /\ \E v \in AverageSpeeds : average_speed_ms' = v
    /\ route_data' = [kind |-> "segments", all_geometry |-> <<>>]
    /\ report' = AnalysisRaised
    /\ an_pc' = "done"
    /\ UNCHANGED <<lights, start_time, an_current_time, traffic_lights>>
    /\ UNCHANGED <<TRAFFIC_LIGHT_MAP, rng, initialized, reseeded, last_region>>
    /\ UNCHANGED notAnalyzeVars

\* lines 367-392: the geometry is joined and the lights are detected, on
\* the map that exists or on the one detect_traffic_lights_on_route makes;
\* without lights the call returns, with lights the loop starts
AnalyzeDetect ==
    /\ an_pc = "idle"
    /\ \E d \in RouteData, v \in AverageSpeeds, now \in StartTimes :
          /\ d.kind = "segments"
          /\ Len(TRAFFIC_LIGHT_MAP) = 0 => Len(d.all_geometry) > 0
          /\ LET g == IF Len(TRAFFIC_LIGHT_MAP) = 0
                      THEN Reinitialized(TRAFFIC_LIGHT_MAP, RouteRegion(d.all_geometry), rng)
                      ELSE [map |-> TRAFFIC_LIGHT_MAP, rng |-> rng]
                 found == Detected(d.all_geometry, g.map, DefaultRadius)
             IN /\ TRAFFIC_LIGHT_MAP' = g.map
                /\ rng' = g.rng
                /\ IF Len(TRAFFIC_LIGHT_MAP) = 0
                   THEN /\ initialized' = Recorded(RouteRegion(d.all_geometry), rng, g.map)
                        /\ reseeded' = Reseeded(RouteRegion(d.all_geometry), rng)
                        /\ last_region' = RouteRegion(d.all_geometry)
                   ELSE UNCHANGED <<initialized, reseeded, last_region>>
                /\ lights' = found
                /\ route_data' = d
                /\ average_speed_ms' = v
                /\ IF Len(found) = 0
                   THEN /\ report' = NoLightsOnRoute
                        /\ an_pc' = "done"
                        /\ UNCHANGED <<start_time, an_current_time>>
                   ELSE /\ report' = NoReport
                        /\ an_pc' = "loop"
                        /\ start_time' = now
                        /\ an_current_time' = now
    /\ traffic_lights' = <<>>
    /\ UNCHANGED notAnalyzeVars

\* lines 394-433: one pass of the loop.  With a speed of 0 the division of
\* line 399 raises ZeroDivisionError; with a speed below 0 the advisor
\* returns its failure, which has no 'optimized', and line 414 raises KeyError
AnalyzeLight ==
    /\ an_pc = "loop"
    /\ Len(traffic_lights) < Len(lights)
    /\ IF average_speed_ms <= 0
       THEN /\ report' = AnalysisRaised
            /\ an_pc' = "done"
            /\ UNCHANGED <<an_current_time, traffic_lights>>
       ELSE LET entry == AnalyzedLight(lights, Len(traffic_lights), start_time,
                                       an_current_time, average_speed_ms)
            IN /\ traffic_lights' = Append(traffic_lights, entry)
               /\ an_current_time' = entry.time_after
               /\ UNCHANGED <<an_pc, report>>
    /\ UNCHANGED <<route_data, average_speed_ms, lights, start_time>>
    /\ UNCHANGED <<TRAFFIC_LIGHT_MAP, rng, initialized, reseeded, last_region>>
    /\ UNCHANGED notAnalyzeVars

\* lines 435-448
AnalyzeReturn ==
    /\ an_pc = "loop"
    /\ Len(traffic_lights) = Len(lights)
    /\ report' = Report(traffic_lights)
    /\ an_pc' = "done"
    /\ UNCHANGED <<route_data, average_speed_ms, lights, start_time, an_current_time,
                   traffic_lights>>
    /\ UNCHANGED <<TRAFFIC_LIGHT_MAP, rng, initialized, reseeded, last_region>>
    /\ UNCHANGED notAnalyzeVars

\* the caller has the result; the map stays for the next call
AnalyzeTaken ==
    /\ an_pc = "done"
    /\ an_pc' = "idle"
    /\ route_data' = NoRouteArgument
    /\ average_speed_ms' = 0
    /\ lights' = <<>>
    /\ start_time' = 0
    /\ an_current_time' = 0
    /\ traffic_lights' = <<>>
    /\ report' = NoReport
    /\ UNCHANGED <<TRAFFIC_LIGHT_MAP, rng, initialized, reseeded, last_region>>
    /\ UNCHANGED notAnalyzeVars

AnalyzeNext ==
    \/ InitializeBeforeAnalysis
    \/ AnalyzeWithoutData
    \/ AnalyzeDetectRaises
    \/ AnalyzeDetect
    \/ AnalyzeLight
    \/ AnalyzeReturn
    \/ AnalyzeTaken

\* ------------------------------------------------------------------------
\* Specifications
\* ------------------------------------------------------------------------
\* the state of a freshly started process: no call has been made yet
Init ==
    /\ coordinates = 0
    /\ current_hour = 0
    /\ matrix = Unavailable
    /\ durations = <<>>
    /\ pc = "idle"
    /\ perm_k = 0
    /\ min_duration = Infinity
    /\ best_route_indices = <<>>
    /\ route_indices = <<>>
    /\ unvisited = {}
    /\ nn_seed = <<>>
    /\ remaining = <<>>
    /\ route_duration = 0
    /\ result = NoResult
    /\ est = NoEstimate
    /\ prev_est = NoEstimate
    /\ adv_pc = "idle"
    /\ light_info = NoLight
    /\ current_time = 0
    /\ current_speed = 0
    /\ distance_to_light = 0
    /\ base = NoPhase
    /\ best = NoBest
    /\ scan_i = 0
    /\ scanned = <<>>
    /\ advice = NoAdvice
    /\ TRAFFIC_LIGHT_MAP = <<>>
    /\ rng = Seeded(0)
    /\ initialized = {}
    /\ reseeded = FALSE
    /\ last_region = <<0, 0, 0, 0>>
    /\ route_geometry = <<>>
    /\ detect_outcome = "none"
    /\ found_lights = <<>>
    /\ traffic = NoTraffic
    /\ init_pc = [t \in Threads |-> "idle"]
    /\ init_region = [t \in Threads |-> <<0, 0, 0, 0>>]
    /\ init_left = [t \in Threads |-> 0]
    /\ running = 0
    /\ switches = 0
    /\ observed = NotObserved
    /\ an_pc = "idle"
    /\ route_data = NoRouteArgument
    /\ average_speed_ms = 0
    /\ lights = <<>>
    /\ start_time = 0
    /\ an_current_time = 0
    /\ traffic_lights = <<>>
    /\ report = NoReport

SpecRoute == Init /\ [][RouteNext]_vars

\* the interpreter keeps executing a call that has a next statement
SpecRouteFair == SpecRoute /\ WF_vars(TwoOptStep \/ TwoOptEnd)

SpecLight == Init /\ [][LightNext]_vars

SpecMap == Init /\ [][MapNext]_vars

SpecTraffic == Init /\ [][TrafficNext]_vars

SpecThreads == Init /\ [][ThreadsNext]_vars

SpecAnalyze == Init /\ [][AnalyzeNext]_vars

\* ------------------------------------------------------------------------
\* Properties of optimize_route
\* ------------------------------------------------------------------------
\* every order of a set of indices
RECURSIVE PermsOf(_)
PermsOf(S) ==
    IF S = {} THEN {<<>>}
    ELSE UNION {{<<x>> \o p : p \in PermsOf(S \ {x})} : x \in S}

\* every order of 0..n-1 that starts at index 0
OrdersFromZero(n) == {<<0>> \o p : p \in PermsOf(1 .. (n - 1))}

ExactReturned ==
    /\ pc = "done"
    /\ coordinates >= 2
    /\ coordinates <= ExactMax
    /\ result.outcome = "returned"
    /\ result.has_route

\* C1 as stated: for 2 <= N <= 6 the returned order has the smallest sum of
\* consecutive-pair durations of the provider's matrix among all orders that
\* start at index 0.
C1_OptimalOnProviderMatrix ==
    ExactReturned =>
        \A o \in OrdersFromZero(coordinates) :
            RouteTotal(matrix.durations, result.route) <= RouteTotal(matrix.durations, o)

\* C1 amended: for 2 <= N <= 6 the returned order has the smallest sum of
\* consecutive-pair durations among all orders that start at index 0, the
\* durations being the traffic-adjusted ones the search reads (the
\* provider's outside the rush hours); outside the rush hours the scenario
\* matrix gives the order [0,1,3,2] with total 65 s.
C1_OptimalOnAdjustedMatrix ==
    ExactReturned =>
        /\ \A o \in OrdersFromZero(coordinates) :
              RouteTotal(durations, result.route) <= RouteTotal(durations, o)
        /\ (~RushHour(current_hour) /\ coordinates = 4
                /\ \A i \in Idx(4), j \in Idx(4) :
                      matrix.durations[i][j] = Scale * ScenarioDurations[i + 1][j + 1])
           => /\ result.route = <<0, 1, 3, 2>>
              /\ RouteTotal(matrix.durations, result.route) = 65 * Scale

\* C1 witness: a rush-hour call on a 5-point matrix whose adjustment is not
\* uniform has returned an order from the exact strategy.
C1_Witness ==
    /\ ExactReturned
    /\ coordinates = 5
    /\ RushHour(current_hour)
    /\ \E i \in Idx(5), j \in Idx(5) : i # j /\ durations[i][j] # matrix.durations[i][j]
    /\ \E i \in Idx(5), j \in Idx(5) : i # j /\ durations[i][j] = matrix.durations[i][j]

\* C2: under each strategy the returned order starts with index 0, has
\* length N and holds every index 0..N-1 exactly once (N >= 1).
C2_OrderIsPermutation ==
    (pc = "done" /\ coordinates >= 1 /\ result.outcome = "returned" /\ result.has_route) =>
        /\ Len(result.route) = coordinates
        /\ result.route[1] = 0
        /\ \A x \in Idx(coordinates) :
              Cardinality({k \in 1..Len(result.route) : result.route[k] = x}) = 1

\* C2 witness: the 2-opt strategy returned after at least one reversal.
C2_Witness ==
    /\ pc = "done"
    /\ coordinates > ExactMax
    /\ coordinates <= TwoOptMax
    /\ result.has_route
    /\ result.route # nn_seed

\* C3 as stated: for 7 <= N <= 12 the order held by the 2-opt phase never
\* has a larger total duration than the nearest-neighbour seed it started
\* from, after every reversal and at termination.
C3_TwoOptNeverWorseThanSeed ==
    (pc \in {"twoopt", "finish", "done"} /\ coordinates > ExactMax /\ coordinates <= TwoOptMax
        /\ Len(nn_seed) > 0) =>
        RouteTotal(durations, route_indices) <= RouteTotal(durations, nn_seed)

\* C10: with the provider unavailable for N >= 2, or an error raised while
\* optimizing, optimize_route returns the failure marker (no order, duration
\* 0, distance 0), and no call ever ends by raising.
C10_FailureMarkerNotRaise ==
    /\ result.outcome # "raised"
    /\ (pc = "done" /\ coordinates >= 2
            /\ (matrix.kind = "unavailable" \/ HasNull(matrix, coordinates)))
       => /\ result.outcome = "returned"
          /\ ~result.has_route
          /\ result.route = <<>>
          /\ result.hours = 0 /\ result.minutes = 0 /\ result.distance = 0

\* C10 witness: a call whose matrix held a null cell has ended.
C10_Witness ==
    /\ pc = "done"
    /\ coordinates >= 2
    /\ matrix.kind = "ok"
    /\ HasNull(matrix, coordinates)
    /\ result.outcome = "returned"

\* ------------------------------------------------------------------------
\* Properties of estimate_traffic_light_delay and optimize_arrival_time
\* ------------------------------------------------------------------------
DirectEstimate == est.called /\ adv_pc = "idle"

\* C4 as stated: the (phase, delay) result is periodic in the arrival time
\* with period cycle_time: the result at t equals the result at
\* t + cycle_time seconds, for every light and every arrival time t.
C4_PeriodicInArrivalTime ==
    (DirectEstimate /\ prev_est.called /\ est.light = prev_est.light
        /\ est.t = prev_est.t + est.light.cycle_time * MicrosPerSecond) =>
        /\ est.status = prev_est.status
        /\ est.delay = prev_est.delay

\* the position in the cycle the specification defines: floor, then modulo
FloorPosition(li, us) == (IntFloor(us) + li.offset) % li.cycle_time

\* C5 as stated: with position = (floor(timestamp) + offset) mod cycle_time
\* the result is (green, 0) when position < green_time, (yellow, 5) when
\* green_time <= position < green_time + yellow_time, and otherwise red with
\* delay 30 when (position - green_time - yellow_time) / red_time < 0.25,
\* 20 when it is < 0.75 and 5 otherwise.
C5_PhaseTableOnFloorPosition ==
    DirectEstimate =>
        LET li == est.light
            position == FloorPosition(li, est.t)
            red_position == position - li.green_time - li.yellow_time
            red_time == li.cycle_time - li.green_time - li.yellow_time
        IN /\ position < li.green_time => (est.status = "green" /\ est.delay = 0)
           /\ (li.green_time <= position /\ position < li.green_time + li.yellow_time)
                 => (est.status = "yellow" /\ est.delay = 5)
           /\ position >= li.green_time + li.yellow_time =>
                 /\ est.status = "red"
                 /\ 4 * red_position < red_time => est.delay = 30
                 /\ (4 * red_position >= red_time /\ 4 * red_position < 3 * red_time)
                       => est.delay = 20
                 /\ 4 * red_position >= 3 * red_time => est.delay = 5

\* C6: when the arrival at the unmodified current speed falls in the green
\* phase, optimize_arrival_time returns time_saved = 0, the current speed as
\* suggested_speed and optimized = false, and no candidate speed is scanned.
C6_GreenBaselineKeepsSpeed ==
    (adv_pc = "done" /\ current_speed > 0
        /\ LET arrival == current_time + TravelMicros(distance_to_light, current_speed)
           IN ((arrival \div MicrosPerSecond) + light_info.offset) % light_info.cycle_time
                 < light_info.green_time) =>
        /\ advice.returned /\ advice.success
        /\ advice.time_saved = 0
        /\ advice.suggested_speed = current_speed
        /\ ~advice.optimized
        /\ scanned = <<>>
        /\ est.t = current_time + TravelMicros(distance_to_light, current_speed)

\* C6 witness: a call at 11 m/s, 100 m before the light, found the baseline
\* arrival green and returned.
C6_Witness ==
    /\ adv_pc = "done"
    /\ current_speed = 1100
    /\ distance_to_light = 100
    /\ base.status = "green"
    /\ advice.returned

\* ------------------------------------------------------------------------
\* The map: properties
\* ------------------------------------------------------------------------
\* a map as its set of (key, cycle_time, offset, green_time, type)
MapContent(m) ==
    {<<m[k].key, m[k].cycle_time, m[k].offset, m[k].green_time, m[k].type>> : k \in 1..Len(m)}

\* C7: the map an initialization leaves is the map the first initialization
\* of the same region left (same keys, and per key the same cycle_time,
\* offset, green_time and type), whatever was done in between.
C7_MapDeterministicInRegion ==
    Len(TRAFFIC_LIGHT_MAP) > 0 =>
        \E p \in initialized :
            /\ p.region = last_region
            /\ MapContent(p.map) = MapContent(TRAFFIC_LIGHT_MAP)

\* a region initialized again, from another generator state than the first
\* time, after another region had been initialized
C7_Witness ==
    /\ Len(TRAFFIC_LIGHT_MAP) > 0
    /\ reseeded
    /\ \E q \in initialized : q.region # last_region

\* C8: no key occurs twice in the list detect_traffic_lights_on_route returns.
C8_NoDuplicateKeys ==
    detect_outcome = "returned" =>
        \A i, j \in 1..Len(found_lights) :
            found_lights[i].coordinates = found_lights[j].coordinates => i = j

\* a returned light within the radius of two route points
C8_Witness ==
    /\ detect_outcome = "returned"
    /\ \E k \in 1..Len(found_lights) : \E i, j \in 1..Len(route_geometry) :
          /\ i # j
          /\ WithinRadius(route_geometry[i], found_lights[k].coordinates, DefaultRadius)
          /\ WithinRadius(route_geometry[j], found_lights[k].coordinates, DefaultRadius)

\* C9: the returned list is ascending by distance_along_route.
C9_AscendingByDistance ==
    detect_outcome = "returned" =>
        \A k \in 1..(Len(found_lights) - 1) :
            found_lights[k].distance_along_route <= found_lights[k + 1].distance_along_route

\* a returned list whose lights lie at different distances along the route
C9_Witness ==
    /\ detect_outcome = "returned"
    /\ Len(found_lights) >= 2
    /\ found_lights[1].distance_along_route < found_lights[Len(found_lights)].distance_along_route

\* C11: a call with current_speed <= 0 ends with a structured failure
\* (success false), nothing raised, and neither an arrival time nor a phase
\* computed on the way.
C11_NonPositiveSpeedRefused ==
    (adv_pc = "done" /\ current_speed <= 0) =>
        /\ advice.returned
        /\ ~advice.raised
        /\ ~advice.success
        /\ ~est.called
        /\ base = NoPhase
        /\ scanned = <<>>

\* a call with speed 0 has ended
C11_Witness ==
    /\ adv_pc = "done"
    /\ current_speed = 0
    /\ distance_to_light > 0

\* ------------------------------------------------------------------------
\* Properties of simulate_traffic_conditions
\* ------------------------------------------------------------------------
\* C12: every call returns a level in {0,1,2,3}; without a failure it is the
\* level of the adjusted probability clamped to [0,1]: below 0.2 level 0,
\* below 0.5 level 1, below 0.8 level 2, otherwise 3.
C12_LevelFromClampedProbability ==
    traffic.called =>
        /\ traffic.level \in 0..3
        /\ ~traffic.failed =>
              LET clamped == IF traffic.adjusted < 0 THEN 0
                             ELSE IF traffic.adjusted > 256000 THEN 256000
                             ELSE traffic.adjusted
              IN traffic.level = IF clamped < 51200 THEN 0
                                 ELSE IF clamped < 128000 THEN 1
                                 ELSE IF clamped < 204800 THEN 2
                                 ELSE 3

\* a call whose adjusted probability exceeded 1 and was clamped
C12_Witness ==
    /\ traffic.called
    /\ ~traffic.failed
    /\ traffic.adjusted > 256000
    /\ traffic.level = 3

\* C13: when a collaborator raises, the call does not raise and returns 2
\* for the hours 7..9 and 16..19 and 1 for every other hour.
C13_FallbackByHourOnly ==
    (traffic.called /\ traffic.failed) =>
        /\ ~traffic.raised
        /\ traffic.level = IF traffic.hour \in (7..9) \cup (16..19) THEN 2 ELSE 1

\* a failed call at hour 19
C13_Witness ==
    /\ traffic.called
    /\ traffic.failed
    /\ traffic.hour = 19
    /\ traffic.level = 2

\* ------------------------------------------------------------------------
\* Properties of the stored intersections
\* ------------------------------------------------------------------------
\* C14: every stored intersection has its cycle_time within the range of
\* its class, 0 <= offset < cycle_time, green_time = floor(0.4 * cycle_time),
\* yellow_time = 3 and green_time + yellow_time < cycle_time.
C14_StoredIntersectionsWellFormed ==
    \A k \in 1..Len(TRAFFIC_LIGHT_MAP) :
        LET e == TRAFFIC_LIGHT_MAP[k]
        IN /\ \/ e.type = "small_intersection" /\ e.cycle_time \in 45..60
              \/ e.type = "medium_intersection" /\ e.cycle_time \in 60..90
              \/ e.type = "large_intersection" /\ e.cycle_time \in 90..120
              \/ e.type = "complex_intersection" /\ e.cycle_time \in 120..180
           /\ 0 <= e.offset
           /\ e.offset < e.cycle_time
           /\ 5 * e.green_time <= 2 * e.cycle_time
           /\ 2 * e.cycle_time < 5 * (e.green_time + 1)
           /\ e.yellow_time = 3
           /\ e.green_time + e.yellow_time < e.cycle_time

\* a map that holds intersections of three classes
C14_Witness ==
    /\ \E k \in 1..Len(TRAFFIC_LIGHT_MAP) : TRAFFIC_LIGHT_MAP[k].type = "complex_intersection"
    /\ \E k \in 1..Len(TRAFFIC_LIGHT_MAP) : TRAFFIC_LIGHT_MAP[k].type = "large_intersection"
    /\ \E k \in 1..Len(TRAFFIC_LIGHT_MAP) : TRAFFIC_LIGHT_MAP[k].type = "medium_intersection"

\* the regions an initialization is called with: those of explicit calls and
\* the widened boxes of the routes
InitializedRegions == Regions \cup {RouteRegion(r) : r \in Routes \ {<<>>}}

\* per region, the map its initialization produces in a process whose map
\* is empty
EmptyProcessMaps == [b \in InitializedRegions |-> InitializedMap(b, 0).map]

\* C16: after an initialization the map is the one the same call produces
\* in a process whose map is empty, whatever initializations went before;
\* nothing generated for an earlier region is left.
C16_ReinitializationReplacesMap ==
    Len(TRAFFIC_LIGHT_MAP) > 0 =>
        TRAFFIC_LIGHT_MAP = EmptyProcessMaps[last_region]

\* a region initialized after another one, whose map had other keys
C16_Witness ==
    /\ Len(TRAFFIC_LIGHT_MAP) > 0
    /\ \E p \in initialized :
          /\ p.region # last_region
          /\ \E k \in 1..Len(p.map) :
                \A j \in 1..Len(TRAFFIC_LIGHT_MAP) : TRAFFIC_LIGHT_MAP[j].key # p.map[k].key

\* ------------------------------------------------------------------------
\* Properties of concurrent initializations
\* ------------------------------------------------------------------------
\* the complete map of region b
CompleteMapOf(b) == MapContent(InitializedMap(b, 0).map)

\* C15 as stated: with initializations of different regions running
\* concurrently, or a reader overlapping one, the map the reader sees and the
\* map left when every thread has returned are each the complete map of one
\* region: never empty, partial or mixed.
C15_NoInterleavedWrites ==
    /\ observed.seen =>
          \E b \in ThreadRegions : MapContent(observed.map) = CompleteMapOf(b)
    /\ (\A t \in Threads : init_pc[t] = "done") =>
          \E b \in ThreadRegions : MapContent(TRAFFIC_LIGHT_MAP) = CompleteMapOf(b)

\* ------------------------------------------------------------------------
\* Further properties of optimize_route
\* ------------------------------------------------------------------------
\* C17 as stated: for N >= 2 and an available matrix the reported duration
\* is the sum of the consecutive-edge durations along the returned order, as
\* floor(total / 3600) hours and floor((total mod 3600) / 60) minutes, under
\* each of the three strategies.
C17_ReportedDurationIsRouteTotal ==
    (pc = "done" /\ coordinates >= 2 /\ result.outcome = "returned" /\ result.has_route) =>
        LET total == RouteTotal(durations, result.route)
        IN /\ result.hours = total \div (3600 * Scale)
           /\ result.minutes = (total % (3600 * Scale)) \div (60 * Scale)

\* C18 as stated: for 7 <= N <= 12 and every duration matrix, asymmetric ones
\* included, the 2-opt loop terminates: a call that entered the loop leaves
\* it, never applying reversals forever or coming back to an earlier order.
C18_TwoOptTerminates == (pc = "twoopt") ~> (pc = "finish")

\* a comes before b in lexicographic order (sequences of equal length)
LexBefore(a, b) ==
    \E k \in 1..Len(a) :
        /\ a[k] < b[k]
        /\ \A i \in 1..(k - 1) : a[i] = b[i]

\* per N, the orders in the sequence the exact search compares them
EnumerationOrder ==
    [n \in 2..ExactMax |->
        [k \in 0..(Fact(n - 1) - 1) |-> <<0>> \o KthPerm(k, SortedSeq(1 .. (n - 1)))]]

\* the orders the exact search has compared so far, in enumeration order
Enumerated(k) == EnumerationOrder[coordinates][k]

\* C19: for N <= 6 the exact search keeps, after every permutation it has
\* compared, the first of the enumerated orders that reaches the smallest
\* total so far (a later order with an equal total never replaces it), and
\* the order optimize_route returns is the lexicographically first of all
\* orders from index 0 that reach the minimum total duration.
C19_FirstMinimumWins ==
    /\ (pc = "exact" /\ perm_k > 0) =>
          /\ min_duration = RouteTotal(durations, best_route_indices)
          /\ \E k \in 0..(perm_k - 1) : best_route_indices = Enumerated(k)
          /\ \A j \in 0..(perm_k - 1) :
                LET total == RouteTotal(durations, Enumerated(j))
                IN \/ total > min_duration
                   \/ /\ total = min_duration
                      /\ ~LexBefore(Enumerated(j), best_route_indices)
    /\ ExactReturned =>
          \A o \in OrdersFromZero(coordinates) :
              RouteTotal(durations, o) = RouteTotal(durations, result.route)
                  => (o = result.route \/ LexBefore(result.route, o))

\* C19 witness: the exact strategy returned for N = 5 although another order
\* reaches the same minimum total.
C19_Witness ==
    /\ ExactReturned
    /\ coordinates = 5
    /\ \E o \in OrdersFromZero(coordinates) :
          /\ o # result.route
          /\ RouteTotal(durations, o) = RouteTotal(durations, result.route)

\* positions of `rem` whose index p has another remaining index o with the
\* detour c -> p -> o costing at most 20% more than the direct leg c -> o
WithinTwentyPercent(d, c, rem) ==
    {k \in 1..Len(rem) :
        \E o \in 1..Len(rem) :
            /\ rem[o] # rem[k]
            /\ 5 * (d[c][rem[k]] + d[rem[k]][rem[o]]) <= 6 * d[c][rem[o]]}

\* C20 as stated: a step of the greedy hybrid (N > 12) moves to the nearest
\* unvisited index c; when at least 2 indices remain it then appends the
\* first remaining index p, in ascending order, for which some other
\* remaining index o makes the detour through p cost at most 20% more than
\* the direct leg, both measured from the just-visited c; when there is no
\* such p it appends nothing further.
C20_LookAheadFromJustVisited ==
    [][HybridStep =>
        LET c == best_route_indices'[Len(best_route_indices) + 1]
            rem == RemoveAt(remaining, PositionOf(remaining, c))
            good == WithinTwentyPercent(durations, c, rem)
        IN IF Len(rem) >= 2 /\ good # {}
           THEN LET k == CHOOSE x \in good : \A y \in good : x <= y
                IN /\ best_route_indices' = best_route_indices \o <<c, rem[k]>>
                   /\ remaining' = RemoveAt(rem, k)
           ELSE /\ best_route_indices' = Append(best_route_indices, c)
                /\ remaining' = rem]_vars

\* ------------------------------------------------------------------------
\* Further properties of detect_traffic_lights_on_route
\* ------------------------------------------------------------------------
\* the planar length of the polyline from its first point to point i
\* (0-based), every segment counted
RECURSIVE PolylineLength(_, _)
PolylineLength(route, i) ==
    IF i = 0 THEN 0
    ELSE PolylineLength(route, i - 1) + SegmentDist(route[i], route[i + 1])

\* C21 as stated: every returned light with route_point_index i has as
\* distance_along_route the length of the route polyline from its first
\* point to point i, the segment (p0, p1) included.
C21_DistanceIsPolylineLength ==
    detect_outcome = "returned" =>
        \A k \in 1..Len(found_lights) :
            found_lights[k].distance_along_route
                = PolylineLength(route_geometry, found_lights[k].route_point_index)

\* the squared Euclidean distance in degree space is within the radius
EuclidWithin(point, key, radius) ==
    (point[1] - key[1]) * (point[1] - key[1])
        + (point[2] - key[2]) * (point[2] - key[2]) <= radius * radius

\* the route points (0-based) within the radius of key
PointsNear(key) ==
    {i \in 0..(Len(route_geometry) - 1) : EuclidWithin(At(route_geometry, i), key, DefaultRadius)}

\* C22: the returned lights are exactly the intersections of the current
\* map within the radius (Euclidean, degree space) of at least one route
\* point, none missing and none outside, each with the map's data, and the
\* route_point_index of each is the smallest index of a route point within
\* the radius of it.
C22_ExactlyTheLightsInRadius ==
    detect_outcome = "returned" =>
        /\ {found_lights[k].coordinates : k \in 1..Len(found_lights)}
              = {TRAFFIC_LIGHT_MAP[j].key : j \in {j \in 1..Len(TRAFFIC_LIGHT_MAP) :
                                                PointsNear(TRAFFIC_LIGHT_MAP[j].key) # {}}}
        /\ \A k \in 1..Len(found_lights) :
              /\ PointsNear(found_lights[k].coordinates) # {}
              /\ found_lights[k].route_point_index = MinOf(PointsNear(found_lights[k].coordinates))
              /\ \E j \in 1..Len(TRAFFIC_LIGHT_MAP) :
                    /\ TRAFFIC_LIGHT_MAP[j].key = found_lights[k].coordinates
                    /\ TRAFFIC_LIGHT_MAP[j].cycle_time = found_lights[k].cycle_time
                    /\ TRAFFIC_LIGHT_MAP[j].offset = found_lights[k].offset
                    /\ TRAFFIC_LIGHT_MAP[j].green_time = found_lights[k].green_time
                    /\ TRAFFIC_LIGHT_MAP[j].type = found_lights[k].type

\* a call returned a light that is out of the radius of route point 0 and
\* within the radius of two later points, and left out a light of the map
\* that passes the quick coordinate test but lies outside the radius
C22_Witness ==
    /\ detect_outcome = "returned"
    /\ \E k \in 1..Len(found_lights) :
          /\ found_lights[k].route_point_index >= 1
          /\ Cardinality(PointsNear(found_lights[k].coordinates)) >= 2
    /\ \E j \in 1..Len(TRAFFIC_LIGHT_MAP), i \in 1..Len(route_geometry) :
          /\ WithinRadiusBox(route_geometry[i], TRAFFIC_LIGHT_MAP[j].key, DefaultRadius)
          /\ PointsNear(TRAFFIC_LIGHT_MAP[j].key) = {}

\* a call of detect_traffic_lights_on_route returns in this step
DetectReturns == detect_outcome = "none" /\ detect_outcome' = "returned"

\* the bounding box of the route, each side moved out by 0.01 degree
WidenedBox(route) ==
    LET lons == {route[k][1] : k \in 1..Len(route)}
        lats == {route[k][2] : k \in 1..Len(route)}
    IN <<MinOf(lons) - 1000, MinOf(lats) - 1000, MaxOf(lons) + 1000, MaxOf(lats) + 1000>>

\* C23: a call of detect_traffic_lights_on_route that finds no map
\* initializes one for the route's bounding box widened by 0.01 degree; a
\* call that finds a non-empty map leaves the map (and the region it was
\* made for) unchanged; and once an initialization has completed the map is
\* never empty again, so no later call re-initializes it.
C23_DetectInitializesOnlyWithoutMap ==
    [][/\ DetectReturns /\ Len(TRAFFIC_LIGHT_MAP) = 0 =>
            /\ initialized = {}
            /\ last_region' = WidenedBox(route_geometry')
            /\ TRAFFIC_LIGHT_MAP' = InitializedMap(WidenedBox(route_geometry'), 0).map
       /\ DetectReturns /\ Len(TRAFFIC_LIGHT_MAP) > 0 =>
            /\ TRAFFIC_LIGHT_MAP' = TRAFFIC_LIGHT_MAP
            /\ last_region' = last_region
            /\ initialized' = initialized
       /\ initialized # {} => Len(TRAFFIC_LIGHT_MAP') > 0]_vars

\* a call on a route of two different points found no map and has returned;
\* the map is now the one of the route's widened box
C23_Witness ==
    /\ detect_outcome = "returned"
    /\ Len(route_geometry) >= 2
    /\ route_geometry[1] # route_geometry[2]
    /\ last_region = WidenedBox(route_geometry)
    /\ Cardinality(initialized) = 1

\* ------------------------------------------------------------------------
\* Further properties of optimize_arrival_time
\* ------------------------------------------------------------------------
\* c lies in [max(0.8 * speed, 5 m/s), min(1.2 * speed, 30 m/s)]
InScanInterval(c, speed) ==
    /\ 10 * c >= 8 * speed
    /\ c >= 500
    /\ 10 * c <= 12 * speed
    /\ c <= 3000

\* the interval is empty
ScanIntervalEmpty(speed) ==
    (8 * speed > 10 * 3000) \/ (12 * speed < 10 * 500)

\* C24 as stated: for a current speed > 0 every scanned candidate lies in
\* [max(0.8*speed, 5), min(1.2*speed, 30)], the suggested speed is the
\* current speed or a scanned candidate, and when the interval is empty
\* (speed 4 or 37.6 m/s) nothing is scanned and the current speed is kept.
C24_CandidatesWithinInterval ==
    (adv_pc \in {"scan", "done"} /\ current_speed > 0) =>
        /\ \A k \in 1..Len(scanned) : InScanInterval(scanned[k], current_speed)
        /\ ScanIntervalEmpty(current_speed) => scanned = <<>>
        /\ (adv_pc = "done" /\ advice.returned /\ advice.success) =>
              /\ \/ advice.suggested_speed = current_speed
                 \/ \E k \in 1..Len(scanned) : advice.suggested_speed = scanned[k]
              /\ ScanIntervalEmpty(current_speed) => advice.suggested_speed = current_speed

\* the delay at the arrival of candidate speed c, lines 297-298
CandidatePhase(c) ==
    EstimateTrafficLightDelay(light_info, current_time + TravelMicros(distance_to_light, c))

\* C25: when the baseline phase is not green the candidates are scanned in
\* ascending speed up to and including the first green one (all of them when
\* none is green); time_saved is the baseline delay minus the smallest delay
\* among the baseline and the scanned candidates, hence >= 0; the suggested
\* speed is the first scanned candidate that reaches that smallest delay
\* when it is below the baseline's, and the current speed with time_saved 0
\* when no scanned candidate improves on the baseline.
C25_BestOfScannedUntilGreen ==
    (adv_pc = "done" /\ advice.returned /\ advice.success /\ base.status \in {"yellow", "red"}) =>
        LET n == Len(scanned)
            delays == {base.delay} \cup {CandidatePhase(scanned[k]).delay : k \in 1..n}
            least == MinOf(delays)
            reach == {k \in 1..n : CandidatePhase(scanned[k]).delay = least}
        IN /\ \A k \in 1..(n - 1) : scanned[k] < scanned[k + 1]
           /\ \A k \in 1..n : scanned[k] = TestSpeed(current_speed, k - 1)
           /\ \A k \in 1..(n - 1) : CandidatePhase(scanned[k]).status # "green"
           /\ \/ n = CandidateCount(current_speed)
              \/ n > 0 /\ CandidatePhase(scanned[n]).status = "green"
           /\ advice.time_saved = base.delay - least
           /\ advice.time_saved >= 0
           /\ IF least < base.delay
              THEN /\ advice.suggested_speed = scanned[MinOf(reach)]
                   /\ advice.current_status = CandidatePhase(scanned[MinOf(reach)]).status
              ELSE /\ advice.suggested_speed = current_speed
                   /\ advice.time_saved = 0
                   /\ advice.current_status = base.status

\* a scan that met no green candidate has returned an improvement that two
\* scanned candidates reach
C25_Witness ==
    /\ adv_pc = "done"
    /\ advice.returned
    /\ advice.time_saved > 0
    /\ advice.current_status # "green"
    /\ Cardinality({k \in 1..Len(scanned) :
                       CandidatePhase(scanned[k]).delay = base.delay - advice.time_saved}) >= 2

\* ------------------------------------------------------------------------
\* Properties of analyze_route_for_lights
\* ------------------------------------------------------------------------
\* the arrival the advisor takes as its baseline for entry k: the running
\* time before the light plus the travel over the distance from the previous
\* light (from the route start for the first one)
BaselineArrival(k) ==
    traffic_lights[k].time_before
        + TravelMicrosCm(traffic_lights[k].distance_to_light, average_speed_ms)

\* C26 as stated: the original delay recorded for every light is the phase
\* delay at the baseline arrival computed from the running current time,
\* the arrival the advisor evaluates for that light.
C26_OriginalDelayAtAdvisorBaseline ==
    \A k \in 1..Len(traffic_lights) :
        /\ traffic_lights[k].original_delay
              = EstimateTrafficLightDelay(lights[k], BaselineArrival(k)).delay
        /\ traffic_lights[k].light_status
              = EstimateTrafficLightDelay(lights[k], BaselineArrival(k)).status

\* C27: a report on a route with at least one detected light has
\* total_time_saved = total_original_delay - total_optimized_delay, the
\* totals being the sums over the lights; a light's optimized delay is 0
\* when the advisory improved on its baseline and its original delay
\* otherwise; hence 0 <= total_optimized_delay <= total_original_delay and
\* total_time_saved >= 0.
C27_TotalsOfTheReport ==
    (an_pc = "done" /\ report.kind = "report") =>
        /\ Len(traffic_lights) = Len(lights)
        /\ Len(lights) >= 1
        /\ \A k \in 1..Len(traffic_lights) :
              LET entry == traffic_lights[k]
              IN /\ entry.optimization.success
                 /\ entry.optimization.optimized <=> entry.optimization.time_saved > 0
                 /\ entry.optimized_delay
                       = IF entry.optimization.time_saved > 0 THEN 0 ELSE entry.original_delay
                 /\ entry.original_delay >= 0
        /\ report.total_original_delay = SumOriginal(traffic_lights)
        /\ report.total_optimized_delay = SumOptimized(traffic_lights)
        /\ report.total_time_saved = report.total_original_delay - report.total_optimized_delay
        /\ 0 <= report.total_optimized_delay
        /\ report.total_optimized_delay <= report.total_original_delay
        /\ report.total_time_saved >= 0

\* a report on two lights or more, one improved by the advisory and one
\* left with its delay
C27_Witness ==
    /\ an_pc = "done"
    /\ report.kind = "report"
    /\ Len(traffic_lights) >= 2
    /\ report.total_time_saved > 0
    /\ report.total_optimized_delay > 0

\* C28 as stated: analyze_route_for_lights never raises; whatever the route
\* data, the state of the map and the assumed speed, it returns a report or
\* a structured failure with success = false.
C28_AnalysisNeverRaises ==
    an_pc = "done" =>
        /\ report.outcome = "returned"
        /\ report.kind \in {"report", "no_lights", "failure"}
        /\ report.kind = "failure" => ~report.success

\* C29 as stated: the running current time never moves backwards: after
\* each light is processed it is >= its value before that light.
C29_RunningTimeNeverBackwards ==
    /\ \A k \in 1..Len(traffic_lights) :
          traffic_lights[k].time_after >= traffic_lights[k].time_before
    /\ an_pc = "loop" => an_current_time >= start_time

\* ------------------------------------------------------------------------
\* The 2-opt phase: the ends of the order
\* ------------------------------------------------------------------------
\* C30: for 7 <= N <= 12 the 2-opt phase never moves the last position of
\* the order nor position 0: after every reversal, and in the order
\* returned, position 0 holds index 0 and the last position holds the last
\* index of the nearest-neighbour seed.
C30_TwoOptKeepsBothEnds ==
    /\ (pc \in {"twoopt", "finish"} /\ coordinates > ExactMax /\ coordinates <= TwoOptMax) =>
          /\ Len(route_indices) = coordinates
          /\ route_indices[1] = 0
          /\ route_indices[coordinates] = nn_seed[coordinates]
    /\ (pc = "done" /\ coordinates > ExactMax /\ coordinates <= TwoOptMax /\ result.has_route) =>
          /\ result.route[1] = 0
          /\ result.route[coordinates] = nn_seed[coordinates]

\* an order returned after a reversal that reached the position before the
\* last one
C30_Witness ==
    /\ pc = "done"
    /\ coordinates > ExactMax
    /\ coordinates <= TwoOptMax
    /\ result.has_route
    /\ result.route[coordinates - 1] # nn_seed[coordinates - 1]

====
